---------------------------- MODULE Spec2Model ----------------------------
(***************************************************************************)
(* A model of the glinq lazy sequence library (CreateLab/GLinq).           *)
(*                                                                         *)
(* A stream node holds a sourceFactory, an optional size hint and the      *)
(* currentIterator that stream.Next() creates on first use.  The model     *)
(* keeps every node a client has constructed in the store `nodes`; a       *)
(* pull function (the closure a sourceFactory returns) is an iterator      *)
(* record that owns the closure's captured variables.  Method operators    *)
(* capture a fresh parent pull function (s.sourceFactory()); the free      *)
(* function operators call enum.Next(), which goes through the parent      *)
(* node's currentIterator.                                                 *)
(***************************************************************************)
EXTENDS Integers, Sequences, FiniteSets

\* ------------------------------------------------------------------ bounds
MaxVal == 2
MaxLen == 3
MaxNodes == 3
MaxArg == 2
MaxK == 3
MaxPulls == 8
GenLimit == 2
LongCount == 8

VARIABLES nodes, last

vars == <<nodes, last>>

\* ----------------------------------------------------------------- helpers
Min2(a, b) == IF a < b THEN a ELSE b

Range1(s) == {s[i] : i \in DOMAIN s}

\* Go's integer division truncates toward zero.
GoDiv(a, b) ==
  IF a >= 0 THEN a \div b ELSE -((-a) \div b)

Swap(s, i, j) == [s EXCEPT ![i] = s[j], ![j] = s[i]]

\* Sequences over S of length 0..n.
SeqsUpTo(S, n) == UNION {[1..k -> S] : k \in 0..n}

\* ------------------------------------------------------------ size hints
\* stream.size: nil (or the -1 sentinel of the int-typed field) is the
\* unknown hint, modelled as <<>>; a known size n is <<n>>.
Unknown == <<>>
Known(n) == <<n>>
IsKnown(sz) == sz # <<>>

\* -------------------------------------------------------- user callbacks
\* predicate func(T) bool
Pred(f, x) ==
  CASE f = "even" -> x % 2 = 0
    [] f = "lt3" -> x < 3
    [] f = "lt6" -> x < 6

\* mapper func(T) T
Mapper(f, x) ==
  CASE f = "double" -> 2 * x

\* mapper func(T, int) T of SelectWithIndex
IndexMapper(f, x, i) ==
  CASE f = "times" -> x * i

\* selector func(T) Enumerable[R] of SelectMany: the elements of the
\* stream it returns
Selector(f, x) ==
  CASE f = "twice" -> <<x, x>>

\* resultSelector func(T1, T2) R of Zip
ResultSelector(f, a, b) ==
  CASE f = "plus" -> a + b

\* keySelector func(T) K
KeyOf(f, x) ==
  CASE f = "parity" -> x % 2
    [] f = "boxed" -> x

\* A keySelector func(T) any may return a value that cannot be a map key;
\* "boxed" returns x for an odd x and the slice []int{x} for an even x.
HashableAlways(f, x) == TRUE
Hashable(f, x) == ~(f = "boxed" /\ x % 2 = 0)

\* comparator func(T, T) int of OrderBy
Compare(f, a, b) ==
  CASE f = "minus" -> a - b

\* less func(a, b T) bool; neg wraps it as func(a, b) bool { return !less(a, b) }
LessFn(fn) == [fn |-> fn, neg |-> FALSE, f |-> ""]
Negate(cmp) == [cmp EXCEPT !.neg = ~@]
\* The less function orderBy hands to sort.Slice: cmp < 0 ascending, cmp > 0
\* descending.
OrderLess(ascending, comparator) ==
  [fn |-> IF ascending THEN "cmpLt" ELSE "cmpGt", neg |-> FALSE,
   f |-> comparator]
Less(cmp, a, b) ==
  LET r == CASE cmp.fn = "lt" -> a < b
             [] cmp.fn = "cmpLt" -> Compare(cmp.f, a, b) < 0
             [] cmp.fn = "cmpGt" -> Compare(cmp.f, a, b) > 0
  IN IF cmp.neg THEN ~r ELSE r

\* ---------------------------------------------- heap (operators.go 568-597)
\* The model's sequences are 1-based, so slot i of the code is items[i + 1].
\* largest after the comparison with the child at slot child.
Larger(items, largest, child, n, cmp) ==
  IF child < n /\ Less(cmp, items[largest + 1], items[child + 1])
  THEN child ELSE largest

RECURSIVE heapifyDown(_, _, _, _, _)
SiftTo(items, i, largest, n, cmp, calls) ==
  IF largest = i THEN [items |-> items, calls |-> calls]
  ELSE heapifyDown(Swap(items, i + 1, largest + 1), largest, n, cmp, calls)

\* heapifyDown: sift items[i] down in items[0..n-1].  Returns the items and
\* the number of calls of less.
heapifyDown(items, i, n, cmp, calls) ==
  SiftTo(items, i,
         Larger(items, Larger(items, i, 2 * i + 1, n, cmp), 2 * i + 2, n, cmp),
         n, cmp,
         calls + (IF 2 * i + 1 < n THEN 1 ELSE 0)
               + (IF 2 * i + 2 < n THEN 1 ELSE 0))

RECURSIVE buildHeapFrom(_, _, _, _)
BuildNext(h, i, cmp) == buildHeapFrom(h.items, i - 1, cmp, h.calls)

buildHeapFrom(items, i, cmp, calls) ==
  IF i < 0 THEN [items |-> items, calls |-> calls]
  ELSE BuildNext(heapifyDown(items, i, Len(items), cmp, calls), i, cmp)

buildHeap(items, cmp) ==
  buildHeapFrom(items, GoDiv(Len(items), 2) - 1, cmp, 0)

\* sort.Slice on fewer than 12 elements is an insertion sort:
\*   for i := 1; i < n; i++ { for j := i; j > 0 && less(j, j-1); j-- { swap } }
RECURSIVE InsertDown(_, _, _, _)
InsertDown(items, j, cmp, calls) ==
  IF j <= 1 THEN [items |-> items, calls |-> calls]
  ELSE IF Less(cmp, items[j], items[j - 1])
       THEN InsertDown(Swap(items, j, j - 1), j - 1, cmp, calls + 1)
       ELSE [items |-> items, calls |-> calls + 1]

RECURSIVE SortFrom(_, _, _, _)
SortNext(r, i, cmp) == SortFrom(r.items, i + 1, cmp, r.calls)

SortFrom(items, i, cmp, calls) ==
  IF i > Len(items) THEN [items |-> items, calls |-> calls]
  ELSE SortNext(InsertDown(items, i, cmp, calls), i, cmp)

SortSlice(items, cmp) == SortFrom(items, 2, cmp, 0)

\* ------------------------------------------------------- nodes, iterators
\* A stream node.  mk is the constructor the client called, op the kind of
\* sourceFactory the returned stream carries (Take(-1) returns Empty(),
\* Reverse returns From(items)); p and q are the streams it was built from
\* (0: none), ty its element type, n and a its integer arguments, f its
\* callback, cmp its less function, data its backing slice, size the hint
\* and cur the currentIterator (<<>>: nil).
Node(mk, op, ty, p, q, n, a, f, cmp, data, size) ==
  [mk |-> mk, op |-> op, ty |-> ty, p |-> p, q |-> q, n |-> n, a |-> a,
   f |-> f, cmp |-> cmp, data |-> data, size |-> size, cur |-> <<>>,
   coll |-> <<>>]

\* The variables a pull closure captures: source (src), index / count /
\* skipped (idx), firstExhausted (flag), seen, heap (buf).
NewIt(id) ==
  [node |-> id, src |-> <<>>, idx |-> 0, flag |-> FALSE, seen |-> {},
   buf |-> <<>>]

\* The context threaded through one API call: the store and the ghost
\* counters of elements pulled from a leaf and of user callback calls.
\* cut records that the call was abandoned after MaxPulls elements: it stands
\* for a loop that a generator never ends.
\* fault records that a callee panicked: the call unwinds, nothing more runs.
Ctx(ns) ==
  [nodes |-> ns, pulls |-> 0, calls |-> 0, cut |-> FALSE, fault |-> FALSE]
Called(c, k) == [c EXCEPT !.calls = @ + k]
Pulled(c) == [c EXCEPT !.pulls = @ + 1]


Done(it, c) == [ok |-> FALSE, v |-> 0, it |-> it, c |-> c]
Yield(v, it, c) == [ok |-> TRUE, v |-> v, it |-> it, c |-> c]
\* The closure `it` after its captured source returned r.
WithSrc(it, r) == [it EXCEPT !.src = <<r.it>>]
\* return other.Next() / return source()
Forward(r, it) == [ok |-> r.ok, v |-> r.v, it |-> it, c |-> r.c]

LeafOps == {"From", "Empty", "Range", "FromMap"}
MethodOps ==
  {"Where", "Select", "Take", "Skip", "Concat", "SelectWithIndex",
   "TakeWhile", "SkipWhile", "DistinctBy"}
PlainOps ==
  LeafOps \cup {"SelectFn", "Distinct", "FromEnumerable", "Union", "SelectMany",
               "Zip"}

RECURSIVE Pull(_, _)
RECURSIVE Factory(_, _)
RECURSIVE NodeNext(_, _)

\* value := m[key]: the zero value for a key the map does not hold.
MapValue(m, key) == IF key \in DOMAIN m THEN m[key] ELSE 0

\* The pull functions of From, Empty and Range (stream.go 278-286, 333-336,
\* 347-354) and of FromMap (kv.go 33-42).
PullLeaf(nd, it, c) ==
  CASE nd.op = "From" ->
         IF it.idx >= Len(nd.data) THEN Done(it, c)
         ELSE Yield(nd.data[it.idx + 1], [it EXCEPT !.idx = @ + 1], Pulled(c))
    [] nd.op = "Empty" -> Done(it, c)
    [] nd.op = "FromMap" ->
         IF it.idx >= Len(nd.data) THEN Done(it, c)
         ELSE Yield([Key |-> nd.data[it.idx + 1],
                     Value |-> MapValue(nd.coll, nd.data[it.idx + 1])],
                    [it EXCEPT !.idx = @ + 1], Pulled(c))
    [] nd.op = "Range" ->
         IF it.idx >= nd.n THEN Done(it, c)
         ELSE Yield(nd.a + it.idx, [it EXCEPT !.idx = @ + 1], Pulled(c))

\* Where (operators.go 268-279); r is what source() returned.
PullWhere(nd, it, r) ==
  IF ~r.ok THEN Done(WithSrc(it, r), r.c)
  ELSE IF Pred(nd.f, r.v) THEN Yield(r.v, WithSrc(it, r), Called(r.c, 1))
  ELSE Pull(WithSrc(it, r), Called(r.c, 1))

\* Select (operators.go 300-307)
PullSelect(nd, it, r) ==
  IF ~r.ok THEN Done(WithSrc(it, r), r.c)
  ELSE Yield(Mapper(nd.f, r.v), WithSrc(it, r), Called(r.c, 1))

\* Take without count++: the count >= n test never stops the traversal.
PullTakeUncounted(nd, it, r) ==
  IF ~r.ok THEN Done(WithSrc(it, r), r.c)
  ELSE Yield(r.v, WithSrc(it, r), r.c)

\* Take (operators.go 444-450), after the count >= n test
PullTake(nd, it, r) ==
  IF ~r.ok THEN Done(WithSrc(it, r), r.c)
  ELSE Yield(r.v, [WithSrc(it, r) EXCEPT !.idx = @ + 1], r.c)

\* Skip (operators.go 486-494)
PullSkip(nd, it, r) ==
  IF it.idx < nd.n
  THEN IF ~r.ok THEN Done(WithSrc(it, r), r.c)
       ELSE Pull([WithSrc(it, r) EXCEPT !.idx = @ + 1], r.c)
  ELSE Forward(r, WithSrc(it, r))

\* Concat (set.go 32): return other.Next()
PullOther(nd, it, c) == Forward(NodeNext(nd.q, c), it)

\* Concat (set.go 24-30)
PullConcat(nd, it, r) ==
  IF r.ok THEN Yield(r.v, WithSrc(it, r), r.c)
  ELSE PullOther(nd, [WithSrc(it, r) EXCEPT !.flag = TRUE], r.c)

\* Select, the free function (operators.go 365-372); e is what enum.Next()
\* returned.
PullSelectFn(nd, it, e) ==
  IF ~e.ok THEN Done(it, e.c)
  ELSE Yield(Mapper(nd.f, e.v), it, Called(e.c, 1))

\* Distinct (distinct.go 13-26)
PullDistinct(nd, it, e) ==
  IF ~e.ok THEN Done(it, e.c)
  ELSE IF e.v \notin it.seen
       THEN Yield(e.v, [it EXCEPT !.seen = @ \cup {e.v}], e.c)
       ELSE Pull(it, e.c)

\* stream.SelectWithIndex (operators.go 328-338)
PullSelectWithIndex(nd, it, r) ==
  IF ~r.ok THEN Done(WithSrc(it, r), r.c)
  ELSE Yield(IndexMapper(nd.f, r.v, it.idx),
             [WithSrc(it, r) EXCEPT !.idx = @ + 1], Called(r.c, 1))

\* TakeWhile that passes over a failing element, as Where does.
PullTakeWhileResuming(nd, it, r) ==
  IF ~r.ok THEN Done(WithSrc(it, r), r.c)
  ELSE IF ~Pred(nd.f, r.v) THEN Pull(WithSrc(it, r), Called(r.c, 1))
       ELSE Yield(r.v, WithSrc(it, r), Called(r.c, 1))

\* TakeWhile that does not record that it stopped.
PullTakeWhileUnlatched(nd, it, r) ==
  IF ~r.ok THEN Done(WithSrc(it, r), r.c)
  ELSE IF ~Pred(nd.f, r.v) THEN Done(WithSrc(it, r), Called(r.c, 1))
       ELSE Yield(r.v, WithSrc(it, r), Called(r.c, 1))

\* stream.TakeWhile (operators.go 515-529), after the `if stopped` test;
\* flag is stopped.
PullTakeWhile(nd, it, r) ==
  IF ~r.ok THEN Done(WithSrc(it, r), r.c)
  ELSE IF ~Pred(nd.f, r.v)
       THEN Done([WithSrc(it, r) EXCEPT !.flag = TRUE], Called(r.c, 1))
       ELSE Yield(r.v, WithSrc(it, r), Called(r.c, 1))

\* stream.SkipWhile (operators.go 546-561); flag is !skipping.
PullSkipWhile(nd, it, r) ==
  IF it.flag THEN Forward(r, WithSrc(it, r))
  ELSE IF ~r.ok THEN Done(WithSrc(it, r), r.c)
  ELSE IF ~Pred(nd.f, r.v)
       THEN Yield(r.v, [WithSrc(it, r) EXCEPT !.flag = TRUE], Called(r.c, 1))
       ELSE Pull(WithSrc(it, r), Called(r.c, 1))

\* stream.DistinctBy (distinct.go 41-55)
PullDistinctBy(nd, it, r) ==
  IF ~r.ok THEN Done(WithSrc(it, r), r.c)
  ELSE IF ~Hashable(nd.f, r.v)
       THEN Done(WithSrc(it, r), [Called(r.c, 1) EXCEPT !.fault = TRUE])
  ELSE IF KeyOf(nd.f, r.v) \notin it.seen
       THEN Yield(r.v, [WithSrc(it, r) EXCEPT !.seen = @ \cup {KeyOf(nd.f, r.v)}],
                  Called(r.c, 1))
       ELSE Pull(WithSrc(it, r), Called(r.c, 1))

\* Union (set.go 60-80); flag is secondStarted, e what current.Next()
\* returned.
PullUnion(nd, it, e) ==
  IF ~e.ok
  THEN IF it.flag THEN Done(it, e.c)
       ELSE Pull([it EXCEPT !.flag = TRUE], e.c)
  ELSE IF e.v \notin it.seen
       THEN Yield(e.v, [it EXCEPT !.seen = @ \cup {e.v}], e.c)
       ELSE Pull(it, e.c)

\* Intersect (set.go 108-120) and Except (set.go 148-160); buf holds the
\* keys of otherSet, e is what e1.Next() returned.
PullMember(nd, it, e) ==
  IF ~e.ok THEN Done(it, e.c)
  ELSE IF ((e.v \in Range1(it.buf)) <=> (nd.op = "Intersect"))
          /\ e.v \notin it.seen
       THEN Yield(e.v, [it EXCEPT !.seen = @ \cup {e.v}], e.c)
       ELSE Pull(it, e.c)

\* Zip (set.go 208-215): e2 is what e2.Next() returned after e1.Next() gave
\* val1.
PullZipSecond(nd, it, val1, e2) ==
  IF ~e2.ok THEN Done(it, e2.c)
  ELSE Yield(ResultSelector(nd.f, val1, e2.v), it, Called(e2.c, 1))

\* Zip (set.go 202-207): e1 is what e1.Next() returned.
PullZip(nd, it, e1) ==
  IF ~e1.ok THEN Done(it, e1.c)
  ELSE PullZipSecond(nd, it, e1.v, NodeNext(nd.q, e1.c))

\* SelectMany (operators.go 744-754): the next element of the source; flag
\* is hasCurrent, buf what currentEnum has left.
PullSelectMany(nd, it, e) ==
  IF ~e.ok THEN Done([it EXCEPT !.flag = FALSE], e.c)
  ELSE Pull([it EXCEPT !.flag = TRUE, !.buf = Selector(nd.f, e.v)],
            Called(e.c, 1))

\* FromEnumerable (stream.go 386-388) over the Fibonacci generator
\* (examples/basic/main.go 1030-1034): data is <<f.a, f.b>>, n the number of
\* elements generated.  The generator never returns false; the model
\* abandons a call that has pulled MaxPulls elements.
PullGenerator(nd, it, c) ==
  IF c.pulls >= MaxPulls THEN Done(it, [c EXCEPT !.cut = TRUE])
  ELSE Yield(nd.data[1], it,
             Pulled([c EXCEPT !.nodes[it.node].data =
                                <<nd.data[2], nd.data[1] + nd.data[2]>>,
                              !.nodes[it.node].n = @ + 1]))

\* TakeOrderedBy (operators.go 673-681)
PullTopK(it, c) ==
  IF it.idx >= Len(it.buf) THEN Done(it, c)
  ELSE Yield(it.buf[it.idx + 1], [it EXCEPT !.idx = @ + 1], c)

PullOn(nd, it, c) ==
  CASE nd.op \in LeafOps -> PullLeaf(nd, it, c)
    [] nd.op = "Where" -> PullWhere(nd, it, Pull(it.src[1], c))
    [] nd.op = "Select" -> PullSelect(nd, it, Pull(it.src[1], c))
    [] nd.op = "Take" ->
         IF it.idx >= nd.n THEN Done(it, c)
         ELSE PullTake(nd, it, Pull(it.src[1], c))
    [] nd.op = "Skip" -> PullSkip(nd, it, Pull(it.src[1], c))
    [] nd.op = "Concat" ->
         IF it.flag THEN PullOther(nd, it, c)
         ELSE PullConcat(nd, it, Pull(it.src[1], c))
    [] nd.op = "SelectFn" -> PullSelectFn(nd, it, NodeNext(nd.p, c))
    [] nd.op = "Distinct" -> PullDistinct(nd, it, NodeNext(nd.p, c))
    [] nd.op = "TakeOrderedBy" -> PullTopK(it, c)
    [] nd.op = "SelectWithIndex" ->
         PullSelectWithIndex(nd, it, Pull(it.src[1], c))
    [] nd.op = "TakeWhile" ->
         IF it.flag THEN Done(it, c)
         ELSE PullTakeWhile(nd, it, Pull(it.src[1], c))
    [] nd.op = "SkipWhile" -> PullSkipWhile(nd, it, Pull(it.src[1], c))
    [] nd.op = "DistinctBy" -> PullDistinctBy(nd, it, Pull(it.src[1], c))
    [] nd.op = "Union" ->
         PullUnion(nd, it, NodeNext(IF it.flag THEN nd.q ELSE nd.p, c))
    [] nd.op \in {"Intersect", "Except"} ->
         PullMember(nd, it, NodeNext(nd.p, c))
    [] nd.op = "SelectMany" ->
         IF it.flag /\ it.buf # <<>>
         THEN Yield(Head(it.buf), [it EXCEPT !.buf = Tail(@)], Pulled(c))
         ELSE PullSelectMany(nd, it, NodeNext(nd.p, c))
    [] nd.op = "Zip" -> PullZip(nd, it, NodeNext(nd.p, c))
    [] nd.op = "FromEnumerable" -> PullGenerator(nd, it, c)

\* One call of the pull function `it`.
Pull(it, c) == IF c.fault THEN Done(it, c) ELSE PullOn(c.nodes[it.node], it, c)

\* TakeOrderedBy: "Collect first n elements" (operators.go 636-642).
RECURSIVE CollectFirst(_, _, _, _)
Collected(enum, n, heap, e) ==
  IF ~e.ok THEN [heap |-> heap, c |-> e.c]
  ELSE CollectFirst(enum, n, Append(heap, e.v), e.c)

CollectFirst(enum, n, heap, c) ==
  IF Len(heap) >= n THEN [heap |-> heap, c |-> c]
  ELSE Collected(enum, n, heap, NodeNext(enum, c))

\* TakeOrderedBy: "Process remaining elements" (operators.go 655-665).
RECURSIVE ProcessRest(_, _, _, _)
Replaced(enum, cmp, c, h) ==
  ProcessRest(enum, h.items, cmp, Called(c, 1 + h.calls))

Candidate(enum, heap, cmp, e) ==
  IF ~e.ok THEN [heap |-> heap, c |-> e.c]
  ELSE IF Less(cmp, e.v, heap[1])
       THEN Replaced(enum, cmp, e.c,
                     heapifyDown([heap EXCEPT ![1] = e.v], 0, Len(heap),
                                 Negate(cmp), 0))
       ELSE ProcessRest(enum, heap, cmp, Called(e.c, 1))

ProcessRest(enum, heap, cmp, c) ==
  Candidate(enum, heap, cmp, NodeNext(enum, c))

\* TakeOrderedBy: "Sort the result" and the closure (operators.go 667-681).
TopKSorted(id, c, sorted) ==
  [it |-> [NewIt(id) EXCEPT !.buf = sorted.items],
   c |-> Called(c, sorted.calls)]

\* TakeOrderedBy without "Sort the result": the closure walks the heap as
\* the selection left it.
TopKRestUnsorted(nd, id, rest) ==
  TopKSorted(id, rest.c, [items |-> rest.heap, calls |-> 0])

TopKRest(nd, id, rest) ==
  TopKSorted(id, rest.c, SortSlice(rest.heap, nd.cmp))

\* "Build max-heap" (operators.go 651-652)
TopKBuilt(nd, id, c, built) ==
  TopKRest(nd, id, ProcessRest(nd.p, built.items, nd.cmp,
                               Called(c, built.calls)))

TopKFirst(nd, id, first) ==
  IF Len(first.heap) = 0 THEN [it |-> NewIt(id), c |-> first.c]
  ELSE TopKBuilt(nd, id, first.c, buildHeap(first.heap, Negate(nd.cmp)))

\* The sourceFactory of TakeOrderedBy (operators.go 632-682).
TopKFactory(nd, id, c) ==
  TopKFirst(nd, id, CollectFirst(nd.p, nd.n, <<>>, c))

\* for { elem, ok := enum.Next(); if !ok { break }; ... }
RECURSIVE DrainNext(_, _, _)
DrainNextStep(id, acc, e) ==
  IF ~e.ok THEN [res |-> acc, c |-> e.c]
  ELSE DrainNext(id, Append(acc, e.v), e.c)

DrainNext(id, acc, c) == DrainNextStep(id, acc, NodeNext(id, c))

\* Intersect and Except: "Materialize e2 into a set" (set.go 97-107, 137-147)
Materialized(id, d) == [it |-> [NewIt(id) EXCEPT !.buf = d.res], c |-> d.c]

\* source := s.sourceFactory() of the method operators
Capture(id, f) == [it |-> [NewIt(id) EXCEPT !.src = <<f.it>>], c |-> f.c]

FactoryOf(nd, id, c) ==
  CASE nd.op \in PlainOps -> [it |-> NewIt(id), c |-> c]
    [] nd.op \in MethodOps -> Capture(id, Factory(nd.p, c))
    [] nd.op = "TakeOrderedBy" -> TopKFactory(nd, id, c)
    [] nd.op \in {"Intersect", "Except"} ->
         Materialized(id, DrainNext(nd.q, <<>>, c))

\* A sourceFactory that hands out the stream's currentIterator once Next()
\* has created it, instead of a fresh pull function.
FactoryShared(id, c) ==
  IF c.nodes[id].cur # <<>> THEN [it |-> c.nodes[id].cur[1], c |-> c]
  ELSE FactoryOf(c.nodes[id], id, c)

\* s.sourceFactory(): a fresh pull function of node id.
Factory(id, c) == FactoryOf(c.nodes[id], id, c)

\* stream.Next (stream.go 361-366): through the node's currentIterator.
Stored(id, r) ==
  [ok |-> r.ok, v |-> r.v, c |-> [r.c EXCEPT !.nodes[id].cur = <<r.it>>]]

FirstNext(id, f) == Stored(id, Pull(f.it, f.c))

NodeNext(id, c) ==
  IF c.nodes[id].cur = <<>> THEN FirstNext(id, Factory(id, c))
  ELSE Stored(id, Pull(c.nodes[id].cur[1], c))

\* -------------------------------------------------------------- evaluators
\* What a terminal evaluator returns, with the context it leaves.
Result(c) ==
  [fault |-> c.fault, res |-> <<>>, num |-> 0, yes |-> FALSE, isnil |-> FALSE,
   c |-> c]

\* for { value, ok := iterator(); if !ok { break }; append }
RECURSIVE Drain(_, _, _)
DrainStep(acc, r) ==
  IF ~r.ok THEN [res |-> acc, c |-> r.c]
  ELSE Drain(r.it, Append(acc, r.v), r.c)

Drain(it, acc, c) == DrainStep(acc, Pull(it, c))

\* One full traversal of a fresh pull function of stream id.
Traversed(f) == Drain(f.it, <<>>, f.c)
Traverse(id, c) == Traversed(Factory(id, c))

\* stream.Size (stream.go 369-374)
SizeOf(nd) ==
  IF IsKnown(nd.size) THEN [n |-> nd.size[1], known |-> TRUE]
  ELSE [n |-> 0, known |-> FALSE]

\* stream.ToSlice (kv.go 554-569): make([]T, 0, size) panics on a negative
\* capacity.
Sliced(d) == [Result(d.c) EXCEPT !.res = d.res]

ToSliceFrom(nd, f) ==
  IF IsKnown(nd.size) /\ nd.size[1] < 0
  THEN [Result(f.c) EXCEPT !.fault = TRUE]
  ELSE Sliced(Drain(f.it, <<>>, f.c))

ToSliceOp(id, c) == ToSliceFrom(c.nodes[id], Factory(id, c))

\* stream.First (kv.go 572-575)
FirstOf(r) == [Result(r.c) EXCEPT !.yes = r.ok, !.num = r.v]

FirstFrom(f) == FirstOf(Pull(f.it, f.c))

FirstOp(id, c) == FirstFrom(Factory(id, c))

\* stream.Next (stream.go 361-366), called by the client
NextOf(e) == [Result(e.c) EXCEPT !.yes = e.ok, !.num = e.v]

NextOp(id, c) == NextOf(NodeNext(id, c))

\* stream.Count (kv.go 579-596)
Counted(d) == [Result(d.c) EXCEPT !.num = Len(d.res)]

CountFrom(f) == Counted(Drain(f.it, <<>>, f.c))

\* Sum (part_002 26-36): e is what s.Next() returned, sum the elements
\* added so far.
RECURSIVE SumLoop(_, _, _)
SumLoop(id, sum, e) ==
  IF ~e.ok THEN [Result(e.c) EXCEPT !.num = sum]
  ELSE SumLoop(id, sum + e.v, NodeNext(id, e.c))

SumOp(id, c) == SumLoop(id, 0, NodeNext(id, c))

CountOp(id, c) ==
  IF IsKnown(c.nodes[id].size)
  THEN [Result(c) EXCEPT !.num = c.nodes[id].size[1]]
  ELSE CountFrom(Factory(id, c))

\* stream.Any (kv.go 600-610)
AnyOf(r) == [Result(r.c) EXCEPT !.yes = r.ok]

AnyFrom(f) == AnyOf(Pull(f.it, f.c))

AnyOp(id, c) ==
  IF IsKnown(c.nodes[id].size)
  THEN [Result(c) EXCEPT !.yes = c.nodes[id].size[1] > 0]
  ELSE AnyFrom(Factory(id, c))

\* stream.Chunk, the loop (kv.go 678-695)
RECURSIVE ChunkLoop(_, _, _, _, _)
ChunkStep(size, result, currentChunk, r) ==
  IF ~r.ok
  THEN [res |-> IF Len(currentChunk) > 0 THEN Append(result, currentChunk)
                ELSE result,
        c |-> r.c]
  ELSE IF Len(currentChunk) + 1 = size
       THEN ChunkLoop(r.it, size, Append(result, Append(currentChunk, r.v)),
                      <<>>, r.c)
       ELSE ChunkLoop(r.it, size, result, Append(currentChunk, r.v), r.c)

ChunkLoop(it, size, result, currentChunk, c) ==
  ChunkStep(size, result, currentChunk, Pull(it, c))

\* `var result [][]T` stays nil unless it was preallocated or appended to.
Chunked(known, l) ==
  [Result(l.c) EXCEPT !.res = l.res, !.isnil = ~known /\ l.res = <<>>]

\* stream.Chunk (kv.go 664-698): make([][]T, 0, chunkCount) panics on a
\* negative chunkCount.
ChunkFrom(nd, size, f) ==
  IF IsKnown(nd.size) /\ GoDiv(nd.size[1] + size - 1, size) < 0
  THEN [Result(f.c) EXCEPT !.fault = TRUE]
  ELSE Chunked(IsKnown(nd.size), ChunkLoop(f.it, size, <<>>, <<>>, f.c))

ChunkOp(id, size, c) ==
  IF size <= 0 THEN [Result(c) EXCEPT !.isnil = TRUE]
  ELSE ChunkFrom(c.nodes[id], size, Factory(id, c))

\* ------------------------------------------------------------ constructors
DefCmp == LessFn("lt")

\* From (stream.go 273-290)
MkFrom(mk, ty, slice) ==
  Node(mk, "From", ty, 0, 0, 0, 0, "", DefCmp, slice, Known(Len(slice)))

\* FromSafe (stream.go 305-326): data is the copy; coll is the caller's
\* slice, which a From stream shares and a FromSafe stream does not.
MkFromSafe(slice) ==
  [MkFrom("FromSafe", "int", slice) EXCEPT !.coll = slice]

\* FromMap (kv.go 23-46): data is the copied keys, in the order `range m`
\* gave them; coll is the caller's map m, read at each pull.
MkFromMap(m, keys) ==
  [Node("FromMap", "FromMap", "kv", 0, 0, 0, 0, "", DefCmp, keys,
        Known(Cardinality(DOMAIN m))) EXCEPT !.coll = m]

\* FromMapSafe that keeps the map and its keys instead of the pairs.
MkFromMapUnsafe(m, keys) == [MkFromMap(m, keys) EXCEPT !.mk = "FromMapSafe"]

\* FromMapSafe (kv.go 59-82): data is the snapshot of the pairs; coll is
\* the caller's map.
MkFromMapSafe(m, keys) ==
  [MkFrom("FromMapSafe", "kv",
          [i \in 1..Len(keys) |-> [Key |-> keys[i], Value |-> m[keys[i]]]])
     EXCEPT !.coll = m]

\* A FromSafe without `copy(data, slice)`.
SharesAlways(nd) == TRUE

\* Whether the stream reads the array its caller holds: From keeps the slice
\* it was given, FromSafe reads its copy.
Shares(nd) == nd.mk = "From"

\* The caller's array of a slice leaf.
Backing(nd) == IF Shares(nd) THEN nd.data ELSE nd.coll

\* slice[i] = v by the caller, as the leaf nd sees it.
Written(nd, i, v) ==
  IF Shares(nd) THEN [nd EXCEPT !.data[i] = v] ELSE [nd EXCEPT !.coll[i] = v]

\* m[key] = v and delete(m, key) by the caller
MapSet(m, key, v) == [k \in DOMAIN m \cup {key} |-> IF k = key THEN v ELSE m[k]]
MapDeleted(m, key) == [k \in DOMAIN m \ {key} |-> m[k]]

\* Empty (stream.go 329-340), as returned by constructor mk of parent p
MkEmpty(mk, ty, p, n) ==
  Node(mk, "Empty", ty, p, 0, n, 0, "", DefCmp, <<>>, Known(0))

\* Range (stream.go 343-358)
MkRange(start, count) ==
  Node("Range", "Range", "int", 0, 0, count, start, "", DefCmp, <<>>,
       Known(count))

\* Where with `size: s.size` in place of `size: -1`.
MkWherePreserving(ns, p, f) ==
  Node("Where", "Where", ns[p].ty, p, 0, 0, 0, f, DefCmp, <<>>, ns[p].size)

\* stream.Where (operators.go 264-283)
MkWhere(ns, p, f) ==
  Node("Where", "Where", ns[p].ty, p, 0, 0, 0, f, DefCmp, <<>>, Unknown)

\* stream.Select (operators.go 296-311)
MkSelect(ns, p, f) ==
  Node("Select", "Select", ns[p].ty, p, 0, 0, 0, f, DefCmp, <<>>, ns[p].size)

\* Select, the free function (operators.go 356-376)
MkSelectFn(ns, p, f) ==
  Node("SelectFn", "SelectFn", ns[p].ty, p, 0, 0, 0, f, DefCmp, <<>>,
       IF SizeOf(ns[p]).known THEN Known(SizeOf(ns[p]).n) ELSE Unknown)

\* Take without the `if n < 0 { return Empty[T]() }` guard.
MkTakeUnchecked(ns, p, n) ==
  Node("Take", "Take", ns[p].ty, p, 0, n, 0, "", DefCmp, <<>>,
       IF IsKnown(ns[p].size) THEN Known(Min2(ns[p].size[1], n))
       ELSE Known(n))

\* Take without the `if s.size < n { newSize = s.size }` branch.
MkTakeUpperBound(ns, p, n) ==
  IF n < 0 THEN MkEmpty("Take", ns[p].ty, p, n)
  ELSE Node("Take", "Take", ns[p].ty, p, 0, n, 0, "", DefCmp, <<>>, Known(n))

\* stream.Take (operators.go 419-455)
MkTake(ns, p, n) ==
  IF n < 0 THEN MkEmpty("Take", ns[p].ty, p, n)
  ELSE Node("Take", "Take", ns[p].ty, p, 0, n, 0, "", DefCmp, <<>>,
            IF IsKnown(ns[p].size) THEN Known(Min2(ns[p].size[1], n))
            ELSE Known(n))

\* stream.Skip (operators.go 461-499); n is the count after `if n < 0 { n = 0 }`
SkipFrom(ns, p, n) ==
  IF IsKnown(ns[p].size) /\ n >= ns[p].size[1]
  THEN MkEmpty("Skip", ns[p].ty, p, n)
  ELSE Node("Skip", "Skip", ns[p].ty, p, 0, n, 0, "", DefCmp, <<>>,
            IF IsKnown(ns[p].size) THEN Known(ns[p].size[1] - n)
            ELSE Unknown)

MkSkip(ns, p, n) == SkipFrom(ns, p, IF n < 0 THEN 0 ELSE n)

\* Concat whose hint is the size of the first stream alone.
MkConcatFirstHint(ns, p, q) ==
  Node("Concat", "Concat", ns[p].ty, p, q, 0, 0, "", DefCmp, <<>>,
       ns[p].size)

\* stream.Concat (set.go 7-37)
MkConcat(ns, p, q) ==
  Node("Concat", "Concat", ns[p].ty, p, q, 0, 0, "", DefCmp, <<>>,
       IF IsKnown(ns[p].size) /\ SizeOf(ns[q]).known
       THEN Known(ns[p].size[1] + SizeOf(ns[q]).n) ELSE Unknown)

\* Distinct (distinct.go 8-30)
MkDistinct(ns, p) ==
  Node("Distinct", "Distinct", ns[p].ty, p, 0, 0, 0, "", DefCmp, <<>>, Unknown)

\* TakeOrderedBy without the `if n <= 0 { return Empty[T]() }` guard.
MkTakeOrderedByUnchecked(ns, p, n, cmp) ==
  Node("TakeOrderedBy", "TakeOrderedBy", ns[p].ty, p, 0, n, 0, "", cmp, <<>>,
       IF SizeOf(ns[p]).known THEN Known(Min2(SizeOf(ns[p]).n, n))
       ELSE Known(n))

\* TakeOrderedBy (operators.go 611-685), the part that runs at construction
MkTakeOrderedBy(ns, p, n, cmp) ==
  IF n <= 0 THEN MkEmpty("TakeOrderedBy", ns[p].ty, p, n)
  ELSE Node("TakeOrderedBy", "TakeOrderedBy", ns[p].ty, p, 0, n, 0, "", cmp,
            <<>>,
            IF SizeOf(ns[p]).known THEN Known(Min2(SizeOf(ns[p]).n, n))
            ELSE Known(n))

\* TakeOrderedDescendingBy (operators.go 695-697)
MkTakeOrderedDescendingBy(ns, p, n, cmp) ==
  [MkTakeOrderedBy(ns, p, n, Negate(cmp)) EXCEPT
     !.mk = "TakeOrderedDescendingBy"]

\* stream.SelectWithIndex (operators.go 324-342)
MkSelectWithIndex(ns, p, f) ==
  Node("SelectWithIndex", "SelectWithIndex", ns[p].ty, p, 0, 0, 0, f, DefCmp,
       <<>>, ns[p].size)

\* stream.TakeWhile (operators.go 505-534)
MkTakeWhile(ns, p, f) ==
  Node("TakeWhile", "TakeWhile", ns[p].ty, p, 0, 0, 0, f, DefCmp, <<>>,
       Unknown)

\* stream.SkipWhile (operators.go 540-566)
MkSkipWhile(ns, p, f) ==
  Node("SkipWhile", "SkipWhile", ns[p].ty, p, 0, 0, 0, f, DefCmp, <<>>,
       Unknown)

\* stream.DistinctBy (distinct.go 35-59)
MkDistinctBy(ns, p, f) ==
  Node("DistinctBy", "DistinctBy", ns[p].ty, p, 0, 0, 0, f, DefCmp, <<>>,
       Unknown)

\* Union (set.go 53-85), Intersect (set.go 94-125), Except (set.go 134-165)
MkSetOp(mk, ns, e1, e2) ==
  Node(mk, mk, ns[e1].ty, e1, e2, 0, 0, "", DefCmp, <<>>, Unknown)

\* Zip (set.go 183-220)
MkZip(ns, e1, e2, f) ==
  Node("Zip", "Zip", ns[e1].ty, e1, e2, 0, 0, f, DefCmp, <<>>,
       IF SizeOf(ns[e1]).known /\ SizeOf(ns[e2]).known
       THEN Known(Min2(SizeOf(ns[e1]).n, SizeOf(ns[e2]).n))
       ELSE Unknown)

\* SelectMany (operators.go 726-759)
MkSelectMany(ns, p, f) ==
  Node("SelectMany", "SelectMany", ns[p].ty, p, 0, 0, 0, f, DefCmp, <<>>,
       Unknown)

\* FromEnumerable (stream.go 378-391) of &Fibonacci{a: 0, b: 1}
\* (examples/basic/main.go 1036-1037), which is not Sizable
MkFromEnumerable ==
  Node("FromEnumerable", "FromEnumerable", "int", 0, 0, 0, 0, "", DefCmp,
       <<0, 1>>, Unknown)

\* What a constructor that runs its source returns: the node, the context
\* it leaves, and whether it panicked.
Made(nd, c) == [fault |-> FALSE, nd |-> nd, c |-> c]

ReverseSeq(s) == [i \in 1..Len(s) |-> s[Len(s) + 1 - i]]

\* stream.Reverse (operators.go 703-709)
Reversed(ty, t) ==
  [Made(MkFrom("Reverse", ty, ReverseSeq(t.res)), t.c) EXCEPT
     !.fault = t.fault]

MkReverse(p, c) == Reversed(c.nodes[p].ty, ToSliceOp(p, c))

\* stream.orderBy (pkg/glinq/README.md 96-124)
OrderSorted(mk, ty, c, sorted) ==
  Made(MkFrom(mk, ty, sorted.items), Called(c, sorted.calls))

Ordered(ty, ascending, comparator, t) ==
  IF t.fault THEN [Made(MkFrom("OrderBy", ty, <<>>), t.c) EXCEPT !.fault = TRUE]
  ELSE OrderSorted(IF ascending THEN "OrderBy" ELSE "OrderByDescending", ty,
                   t.c, SortSlice(t.res, OrderLess(ascending, comparator)))

MkOrderBy(p, ascending, comparator, c) ==
  Ordered(c.nodes[p].ty, ascending, comparator, ToSliceOp(p, c))

\* The keys of s in the order of their first occurrence.
RECURSIVE FirstKeys(_, _)
FirstKeys(f, s) ==
  IF s = <<>> THEN <<>>
  ELSE LET init == FirstKeys(f, SubSeq(s, 1, Len(s) - 1))
           k == KeyOf(f, s[Len(s)])
       IN IF k \in Range1(init) THEN init ELSE Append(init, k)

\* groups[key] after the first loop of GroupBy: the elements with that key,
\* in source order.
GroupOf(f, key, s) == SelectSeq(s, LAMBDA x : KeyOf(f, x) = key)

\* The orders in which `for key, values := range groups` can visit a map
\* with the keys K: Go leaves the iteration order of a map unspecified.
MapOrders(K) == {o \in [1..Cardinality(K) -> K] : Range1(o) = K}

\* GroupBy, the second loop (kv.go 173-177), visiting the keys by `order`
Pairs(f, order, s) ==
  [i \in 1..Len(order) |-> [Key |-> order[i], Value |-> GroupOf(f, order[i], s)]]

\* GroupBy (kv.go 161-194); order ranges over all keys keySelector can
\* return, the map holds those that occurred.
Grouped(f, order, d) ==
  Made([MkFrom("GroupBy", "kv",
               Pairs(f, SelectSeq(order,
                                  LAMBDA k : k \in Range1(FirstKeys(f, d.res))),
                     d.res)) EXCEPT !.f = f],
       Called(d.c, Len(d.res)))

MkGroupBy(p, f, order, c) == Grouped(f, order, DrainNext(p, <<>>, c))

\* ------------------------------------------------------------------ inputs
Vals == 1..MaxVal
\* The slice of the documentation examples of TakeOrderedBy.
DocSlice == <<5, 2, 8, 1, 9, 3>>
Slices == SeqsUpTo(Vals, MaxLen)
Args == (-1)..MaxArg
KArgs == (-1)..MaxK
Counts == {-3, 2}
ChunkSizes == {0, 2}
Preds == {"even"}
\* The predicates handed to TakeWhile and SkipWhile.
WhilePreds == {"even", "lt3", "lt6"}
IndexMappers == {"times"}
Selectors == {"twice"}
\* The keys of the maps given to FromMap and FromMapSafe.
MapKeys == {"a", "b"}
Maps == UNION {[ks -> Vals] : ks \in SUBSET MapKeys}
\* The slices of the Concat and Union examples.
SetSlices == {<<1, 2, 3>>, <<3, 4, 5>>, <<4, 5, 6>>}
\* The slice the traversals of one stream are repeated on.
ReuseSlice == <<1, 2, 3>>
\* The slice of the TakeWhile / SkipWhile examples.
RunSlice == <<1, 2, 3, 4, 5, 6, 7, 8>>
Mappers == {"double"}
KeySelectors == {"parity"}
AnyKeySelectors == {"boxed"}
ResultSelectors == {"plus"}
KeyUniverse == {0, 1}
Lesses == {"lt"}
Comparators == {"minus"}

\* ------------------------------------------------------------------- state
\* last: the most recent API call, what it returned and what it did.
NoObs ==
  [call |-> "none", node |-> 0, arg |-> 0, fault |-> FALSE, res |-> <<>>,
   num |-> 0, yes |-> FALSE, isnil |-> FALSE, pulls |-> 0, calls |-> 0,
   cut |-> FALSE]

Init ==
  /\ nodes = <<>>
  /\ last = NoObs

Ids == 1..Len(nodes)
IntIds == {id \in Ids : nodes[id].ty = "int"}
CanBuild == Len(nodes) < MaxNodes
\* The generators have not run past GenLimit elements: a traversal may start.
CanPull ==
  \A id \in Ids :
    nodes[id].op = "FromEnumerable" => nodes[id].n <= GenLimit

\* A constructor returned the stream nd.
Built(nd, arg, c) ==
  /\ nodes' = Append(c.nodes, nd)
  /\ last' = [NoObs EXCEPT !.call = nd.mk, !.node = Len(nodes) + 1,
                           !.arg = arg, !.pulls = c.pulls, !.calls = c.calls,
                           !.cut = c.cut]

\* A constructor of a stream over p panicked.
Panicked(call, p, c) ==
  /\ nodes' = c.nodes
  /\ last' = [NoObs EXCEPT !.call = call, !.node = p, !.fault = TRUE,
                           !.pulls = c.pulls, !.calls = c.calls,
                           !.cut = c.cut]

\* A constructor that ran its source p returned; last.arg names p.
BuiltFrom(call, p, r) ==
  IF r.fault THEN Panicked(call, p, r.c) ELSE Built(r.nd, p, r.c)

\* A terminal evaluator returned r.
Observed(call, id, arg, r) ==
  /\ nodes' = r.c.nodes
  /\ last' = [call |-> call, node |-> id, arg |-> arg, fault |-> r.fault,
              res |-> r.res, num |-> r.num, yes |-> r.yes,
              isnil |-> r.isnil, pulls |-> r.c.pulls, calls |-> r.c.calls,
              cut |-> r.c.cut]

\* ----------------------------------------------------------------- actions
From ==
  /\ Len(nodes) = 0
  /\ \E slice \in Slices : Built(MkFrom("From", "int", slice), 0, Ctx(nodes))

FromExample ==
  /\ Len(nodes) = 0
  /\ Built(MkFrom("From", "int", DocSlice), 0, Ctx(nodes))

Empty ==
  /\ Len(nodes) = 0
  /\ Built(MkEmpty("Empty", "int", 0, 0), 0, Ctx(nodes))

Range ==
  /\ Len(nodes) = 0
  /\ \E count \in Counts : Built(MkRange(1, count), count, Ctx(nodes))

\* Range(1, 1000000) of the lazy evaluation example (README.md 286), with
\* LongCount for the million.
RangeLong ==
  /\ Len(nodes) = 0
  /\ Built(MkRange(1, LongCount), LongCount, Ctx(nodes))

\* Take with n up to the 3 of the lazy evaluation example.
TakeFew ==
  /\ CanBuild
  /\ \E p \in Ids, n \in KArgs : Built(MkTake(nodes, p, n), n, Ctx(nodes))

Where ==
  /\ CanBuild
  /\ \E p \in IntIds, f \in Preds : Built(MkWhere(nodes, p, f), 0, Ctx(nodes))

Select ==
  /\ CanBuild
  /\ \E p \in IntIds, f \in Mappers :
       Built(MkSelect(nodes, p, f), 0, Ctx(nodes))

SelectFn ==
  /\ CanBuild
  /\ \E p \in IntIds, f \in Mappers :
       Built(MkSelectFn(nodes, p, f), 0, Ctx(nodes))

Take ==
  /\ CanBuild
  /\ \E p \in Ids, n \in Args : Built(MkTake(nodes, p, n), n, Ctx(nodes))

Skip ==
  /\ CanBuild
  /\ \E p \in Ids, n \in Args : Built(MkSkip(nodes, p, n), n, Ctx(nodes))

Concat ==
  /\ CanBuild
  /\ \E p \in Ids, q \in Ids :
       /\ nodes[p].ty = nodes[q].ty
       /\ Built(MkConcat(nodes, p, q), 0, Ctx(nodes))

Distinct ==
  /\ CanBuild
  /\ \E p \in IntIds : Built(MkDistinct(nodes, p), 0, Ctx(nodes))

TakeOrderedBy ==
  /\ CanBuild
  /\ \E p \in IntIds, n \in KArgs, fn \in Lesses :
       Built(MkTakeOrderedBy(nodes, p, n, LessFn(fn)), n, Ctx(nodes))

TakeOrderedDescendingBy ==
  /\ CanBuild
  /\ \E p \in IntIds, n \in KArgs, fn \in Lesses :
       Built(MkTakeOrderedDescendingBy(nodes, p, n, LessFn(fn)), n,
             Ctx(nodes))

FromRun ==
  /\ Len(nodes) = 0
  /\ Built(MkFrom("From", "int", RunSlice), 0, Ctx(nodes))

FromReuse ==
  /\ Len(nodes) = 0
  /\ Built(MkFrom("From", "int", ReuseSlice), 0, Ctx(nodes))

\* A second slice leaf, for the operators that take two streams.
FromOther ==
  /\ Len(nodes) = 1
  /\ nodes[1].op = "From"
  /\ \E slice \in Slices : Built(MkFrom("From", "int", slice), 0, Ctx(nodes))

\* The leaves of the Concat and Union examples.
FromSetExample ==
  /\ Len(nodes) <= 1
  /\ \A id \in Ids : nodes[id].op = "From"
  /\ \E slice \in SetSlices :
       Built(MkFrom("From", "int", slice), 0, Ctx(nodes))

FromSafe ==
  /\ Len(nodes) = 0
  /\ \E slice \in Slices : Built(MkFromSafe(slice), 0, Ctx(nodes))

FromMap ==
  /\ Len(nodes) = 0
  /\ \E m \in Maps : \E keys \in MapOrders(DOMAIN m) :
       Built(MkFromMap(m, keys), 0, Ctx(nodes))

FromMapSafe ==
  /\ Len(nodes) = 0
  /\ \E m \in Maps : \E keys \in MapOrders(DOMAIN m) :
       Built(MkFromMapSafe(m, keys), 0, Ctx(nodes))

\* The caller overwrites an element of the slice it gave to From / FromSafe.
SetElement ==
  \E id \in Ids :
    /\ nodes[id].mk \in {"From", "FromSafe"}
    /\ \E i \in 1..Len(Backing(nodes[id])), v \in Vals :
         /\ nodes' = [nodes EXCEPT ![id] = Written(@, i, v)]
         /\ last' = [NoObs EXCEPT !.call = "SetElement", !.node = id,
                                  !.arg = i, !.num = v]

\* The caller stores a value in the map it gave to FromMap / FromMapSafe.
SetValue ==
  \E id \in Ids :
    /\ nodes[id].mk \in {"FromMap", "FromMapSafe"}
    /\ \E key \in MapKeys, v \in Vals :
         /\ nodes' = [nodes EXCEPT ![id].coll = MapSet(@, key, v)]
         /\ last' = [NoObs EXCEPT !.call = "SetValue", !.node = id,
                                  !.res = <<key>>, !.num = v]

\* The caller deletes a key of the map it gave to FromMap / FromMapSafe.
DeleteKey ==
  \E id \in Ids :
    /\ nodes[id].mk \in {"FromMap", "FromMapSafe"}
    /\ \E key \in DOMAIN nodes[id].coll :
         /\ nodes' = [nodes EXCEPT ![id].coll = MapDeleted(@, key)]
         /\ last' = [NoObs EXCEPT !.call = "DeleteKey", !.node = id,
                                  !.res = <<key>>]

FromEnumerable ==
  /\ Len(nodes) = 0
  /\ Built(MkFromEnumerable, 0, Ctx(nodes))

SelectWithIndex ==
  /\ CanBuild
  /\ \E p \in IntIds, f \in IndexMappers :
       Built(MkSelectWithIndex(nodes, p, f), 0, Ctx(nodes))

TakeWhile ==
  /\ CanBuild
  /\ \E p \in IntIds, f \in WhilePreds :
       Built(MkTakeWhile(nodes, p, f), 0, Ctx(nodes))

SkipWhile ==
  /\ CanBuild
  /\ \E p \in IntIds, f \in WhilePreds :
       Built(MkSkipWhile(nodes, p, f), 0, Ctx(nodes))

DistinctBy ==
  /\ CanBuild
  /\ \E p \in IntIds, f \in KeySelectors :
       Built(MkDistinctBy(nodes, p, f), 0, Ctx(nodes))

\* DistinctBy with a key selector whose keys are not all comparable.
DistinctByAnyKey ==
  /\ CanBuild
  /\ \E p \in IntIds, f \in AnyKeySelectors :
       Built(MkDistinctBy(nodes, p, f), 0, Ctx(nodes))

Union ==
  /\ CanBuild
  /\ \E e1 \in IntIds, e2 \in IntIds :
       Built(MkSetOp("Union", nodes, e1, e2), 0, Ctx(nodes))

Intersect ==
  /\ CanBuild
  /\ \E e1 \in IntIds, e2 \in IntIds :
       Built(MkSetOp("Intersect", nodes, e1, e2), 0, Ctx(nodes))

Except ==
  /\ CanBuild
  /\ \E e1 \in IntIds, e2 \in IntIds :
       Built(MkSetOp("Except", nodes, e1, e2), 0, Ctx(nodes))

Zip ==
  /\ CanBuild
  /\ \E e1 \in IntIds, e2 \in IntIds, f \in ResultSelectors :
       Built(MkZip(nodes, e1, e2, f), 0, Ctx(nodes))

SelectMany ==
  /\ CanBuild
  /\ \E p \in IntIds, f \in Selectors :
       Built(MkSelectMany(nodes, p, f), 0, Ctx(nodes))

Reverse ==
  /\ CanBuild
  /\ \E p \in Ids : BuiltFrom("Reverse", p, MkReverse(p, Ctx(nodes)))

OrderBy ==
  /\ CanBuild
  /\ \E p \in IntIds, ascending \in BOOLEAN, comparator \in Comparators :
       BuiltFrom("OrderBy", p,
                 MkOrderBy(p, ascending, comparator, Ctx(nodes)))

GroupBy ==
  /\ CanBuild
  /\ \E p \in IntIds, f \in KeySelectors, order \in MapOrders(KeyUniverse) :
       BuiltFrom("GroupBy", p, MkGroupBy(p, f, order, Ctx(nodes)))

ToSlice ==
  /\ CanPull
  /\ \E id \in Ids : Observed("ToSlice", id, 0, ToSliceOp(id, Ctx(nodes)))

First ==
  \E id \in Ids : Observed("First", id, 0, FirstOp(id, Ctx(nodes)))

\* The client calls Next() on a stream.
StreamNext ==
  \E id \in Ids : Observed("Next", id, 0, NextOp(id, Ctx(nodes)))

Sum ==
  /\ CanPull
  /\ \E id \in IntIds : Observed("Sum", id, 0, SumOp(id, Ctx(nodes)))

Count ==
  \E id \in Ids : Observed("Count", id, 0, CountOp(id, Ctx(nodes)))

Any ==
  \E id \in Ids : Observed("Any", id, 0, AnyOp(id, Ctx(nodes)))

Chunk ==
  \E id \in Ids, size \in ChunkSizes :
    Observed("Chunk", id, size, ChunkOp(id, size, Ctx(nodes)))

\* ---------------------------------------------------------- specifications
\* Pipelines of the lazy operators and the terminal evaluators.
Next ==
  \/ From \/ Empty \/ Range
  \/ Where \/ Select \/ SelectFn \/ Take \/ Skip \/ Concat \/ Distinct
  \/ ToSlice \/ Count \/ Any \/ Chunk

Spec == Init /\ [][Next]_vars

\* Pipelines ending in a top-K operator.
NextTopK ==
  \/ From \/ FromExample \/ Range \/ Where
  \/ TakeOrderedBy \/ TakeOrderedDescendingBy
  \/ ToSlice

SpecTopK == Init /\ [][NextTopK]_vars

\* Pipelines with the operators that materialize their source.
NextEager ==
  \/ From \/ Range \/ Where \/ Select
  \/ Reverse \/ OrderBy \/ GroupBy
  \/ ToSlice

SpecEager == Init /\ [][NextEager]_vars

\* Pipelines over the unbounded generator and over slices.
NextGen ==
  \/ From \/ FromEnumerable
  \/ Where \/ Take \/ TakeWhile \/ TakeOrderedBy
  \/ ToSlice

SpecGen == Init /\ [][NextGen]_vars

\* Pipelines of method operators over a slice, traversed again and again by
\* the terminal evaluators and by Next() calls on their streams.
NextReuse ==
  \/ FromReuse
  \/ Where \/ Select \/ SelectWithIndex \/ Take \/ Skip
  \/ TakeWhile \/ SkipWhile \/ DistinctBy
  \/ ToSlice \/ Count \/ First \/ StreamNext

SpecReuse == Init /\ [][NextReuse]_vars

\* Construction of pipelines with every operator that sets a size hint.
NextHints ==
  \/ From \/ Range
  \/ Select \/ SelectWithIndex \/ Take \/ Skip \/ Concat \/ TakeOrderedBy
  \/ Where \/ TakeWhile \/ SkipWhile \/ Distinct \/ DistinctBy
  \/ Union \/ Intersect \/ Except \/ SelectMany

SpecHints == Init /\ [][NextHints]_vars

\* Pipelines of the operators that cut a prefix or a suffix off a stream.
NextWhile ==
  \/ From \/ FromRun \/ Range
  \/ Take \/ Skip \/ TakeWhile \/ SkipWhile \/ Select
  \/ ToSlice

SpecWhile == Init /\ [][NextWhile]_vars

\* Two slices combined by Concat and the set operators.
NextSet ==
  \/ From \/ FromOther \/ FromSetExample
  \/ Concat \/ Union \/ Intersect \/ Except
  \/ ToSlice \/ Count

SpecSet == Init /\ [][NextSet]_vars

\* Slice and map leaves whose backing collection the caller changes.
NextLeaf ==
  \/ From \/ FromSafe \/ FromMap \/ FromMapSafe
  \/ SetElement \/ SetValue \/ DeleteKey
  \/ Take \/ Skip
  \/ ToSlice

SpecLeaf == Init /\ [][NextLeaf]_vars

\* Pipelines with DistinctBy over keys that may not be comparable.
NextKeys ==
  \/ From
  \/ DistinctBy \/ DistinctByAnyKey \/ Take
  \/ ToSlice \/ StreamNext

SpecKeys == Init /\ [][NextKeys]_vars

\* Slices under method and free-function operators, evaluated by the
\* methods ToSlice and Count and by the free function Sum.
NextNode ==
  \/ From
  \/ Where \/ Select \/ SelectFn \/ Distinct
  \/ ToSlice \/ Count \/ Sum

SpecNode == Init /\ [][NextNode]_vars

\* Every library leaf under the operators that compute a size hint,
\* traversed by ToSlice.
NextBound ==
  \/ From \/ FromOther \/ FromSafe \/ Empty \/ FromMap \/ FromMapSafe
  \/ Range
  \/ Where \/ Select \/ SelectFn \/ Take \/ Skip \/ Concat \/ Zip
  \/ TakeOrderedBy
  \/ ToSlice

SpecBound == Init /\ [][NextBound]_vars

\* The lazy evaluation example: a long Range or a slice under Where and
\* Take, traversed by ToSlice and pulled through Next().
NextLazy ==
  \/ RangeLong \/ From
  \/ Where \/ TakeFew
  \/ ToSlice \/ StreamNext

SpecLazy == Init /\ [][NextLazy]_vars

\* Streams over one or two slices, pulled through Next() to exhaustion and
\* beyond.
NextExhaust ==
  \/ FromReuse \/ FromOther
  \/ Take \/ Skip \/ TakeWhile \/ SkipWhile
  \/ Concat \/ Union \/ Zip \/ SelectMany
  \/ StreamNext

SpecExhaust == Init /\ [][NextExhaust]_vars

\* ------------------------------------------------------------- properties
\* The leaf at the end of the parent chain of stream id.
RECURSIVE LeafOf(_, _)
LeafOf(ns, id) == IF ns[id].p = 0 THEN id ELSE LeafOf(ns, ns[id].p)

\* The sequence s without the later occurrences of its values.
RECURSIVE FirstSeen(_)
FirstSeen(s) ==
  IF s = <<>> THEN <<>>
  ELSE LET Other(x) == x # Head(s)
       IN  <<Head(s)>> \o FirstSeen(SelectSeq(Tail(s), Other))

\* Stream id combines two slices.
OverSlices(id) ==
  /\ nodes[id].q # 0
  /\ nodes[nodes[id].p].mk = "From"
  /\ nodes[nodes[id].q].mk = "From"

\* The chunks of a list of chunks, concatenated in order.
RECURSIVE Flattened(_)
Flattened(chunks) ==
  IF chunks = <<>> THEN <<>> ELSE Head(chunks) \o Flattened(Tail(chunks))

\* The streams stream id pulls from, itself included.
RECURSIVE Chain(_, _)
Chain(ns, id) == IF ns[id].p = 0 THEN {id} ELSE {id} \cup Chain(ns, ns[id].p)

\* Stream id was built directly over the unbounded generator.
OverGenerator(id) ==
  nodes[id].p # 0 /\ nodes[nodes[id].p].op = "FromEnumerable"

\* The documented meaning of the unary operators: what operator nd yields
\* from a parent that yields the sequence s.
FirstFailing(f, s) ==
  IF \A i \in 1..Len(s) : Pred(f, s[i]) THEN Len(s) + 1
  ELSE CHOOSE i \in 1..Len(s) :
         ~Pred(f, s[i]) /\ \A j \in 1..(i - 1) : Pred(f, s[j])

RECURSIVE FirstByKey(_, _)
FirstByKey(f, s) ==
  IF s = <<>> THEN <<>>
  ELSE LET Other(x) == KeyOf(f, x) # KeyOf(f, Head(s))
       IN  <<Head(s)>> \o FirstByKey(f, SelectSeq(Tail(s), Other))

Expected(nd, s) ==
  CASE nd.op = "Empty" -> <<>>
    [] nd.op = "Where" -> LET Keep(x) == Pred(nd.f, x) IN SelectSeq(s, Keep)
    [] nd.op = "Select" -> [i \in 1..Len(s) |-> Mapper(nd.f, s[i])]
    [] nd.op = "SelectWithIndex" ->
         [i \in 1..Len(s) |-> IndexMapper(nd.f, s[i], i - 1)]
    [] nd.op = "Take" -> SubSeq(s, 1, Min2(nd.n, Len(s)))
    [] nd.op = "Skip" -> SubSeq(s, nd.n + 1, Len(s))
    [] nd.op = "TakeWhile" -> SubSeq(s, 1, FirstFailing(nd.f, s) - 1)
    [] nd.op = "SkipWhile" -> SubSeq(s, FirstFailing(nd.f, s), Len(s))
    [] nd.op = "DistinctBy" -> FirstByKey(nd.f, s)

\* The complete sequence of a pipeline of method operators over a slice.
RECURSIVE Elems(_, _)
Elems(ns, id) ==
  IF ns[id].op = "From" THEN ns[id].data
  ELSE Expected(ns[id], Elems(ns, ns[id].p))

\* What the Next() calls on stream id have still to yield.
Remaining(ns, id) == DrainNext(id, <<>>, Ctx(ns)).res

\* No stream of the pipeline has been pulled through Next yet.
Untraversed == \A id \in Ids : nodes[id].cur = <<>>

\* C1: for every source, every k >= 1 and less = a < b,
\* TakeOrderedBy(source, k, less).ToSlice() is the first min(k, |source|)
\* elements of the source sorted ascending by less, i.e. its k smallest
\* elements; the source is what source.Next() yields.
TakeOrderedByYieldsSmallest ==
  \A id \in Ids :
    (nodes[id].mk = "TakeOrderedBy" /\ nodes[id].n >= 1) =>
      LET source == DrainNext(nodes[id].p, <<>>, Ctx(nodes)).res
          sorted == SortSlice(source, nodes[id].cmp).items
      IN ToSliceOp(id, Ctx(nodes)).res
           = SubSeq(sorted, 1, Min2(nodes[id].n, Len(source)))

\* C2: re-traversability: calling ToSlice() twice on the same pipeline
\* value, whatever operators built it, yields two equal results.
Retraversable ==
  \A id \in Ids :
    LET first == ToSliceOp(id, Ctx(nodes))
        second == ToSliceOp(id, Ctx(first.c.nodes))
    IN second.res = first.res

\* C3: hint exactness: if Size() of a node reports a known size n, a full
\* traversal of the node yields exactly n elements.  Stated for pipelines
\* nothing has traversed yet and for hints that are not negative.
HintExact ==
  \A id \in Ids :
    (Untraversed /\ SizeOf(nodes[id]).known /\ SizeOf(nodes[id]).n >= 0) =>
      LET f == Factory(id, Ctx(nodes))
      IN Len(Drain(f.it, <<>>, f.c).res) = SizeOf(nodes[id]).n

\* C4: the hint never changes an evaluator's value: Count() is the number
\* of elements ToSlice() returns on the same pipeline and Any() is true
\* exactly when ToSlice() is non-empty.  Stated for pipelines nothing has
\* traversed yet, where ToSlice() returns.
HintNeverChangesValue ==
  \A id \in Ids :
    LET slice == ToSliceOp(id, Ctx(nodes))
    IN (Untraversed /\ ~slice.fault) =>
         /\ CountOp(id, Ctx(nodes)).num = Len(slice.res)
         /\ AnyOp(id, Ctx(nodes)).yes <=> (slice.res # <<>>)

\* C5: for every source, every k >= 1 and less = a < b,
\* TakeOrderedDescendingBy(source, k, less).ToSlice() is the
\* min(k, |source|) largest elements of the source in descending order.
TakeOrderedDescendingByYieldsLargest ==
  \A id \in Ids :
    (nodes[id].mk = "TakeOrderedDescendingBy" /\ nodes[id].n >= 1) =>
      LET source == DrainNext(nodes[id].p, <<>>, Ctx(nodes)).res
          descending == SortSlice(source, Negate(LessFn("lt"))).items
      IN ToSliceOp(id, Ctx(nodes)).res
           = SubSeq(descending, 1, Min2(nodes[id].n, Len(source)))

\* C6: for all k >= 0 and all sources, a traversal of
\* TakeOrderedBy(source, k, cmp) yields exactly min(k, count(source))
\* elements, count(source) being the number of elements source.Next() has
\* to give, and the yielded sequence is sorted ascending under cmp: no
\* adjacent pair x, y with cmp(y, x).
TopKCountAndSorted ==
  \A id \in Ids :
    (nodes[id].mk = "TakeOrderedBy" /\ nodes[id].n >= 0) =>
      LET source == DrainNext(nodes[id].p, <<>>, Ctx(nodes)).res
          f == Factory(id, Ctx(nodes))
          out == Drain(f.it, <<>>, f.c).res
      IN /\ Len(out) = Min2(nodes[id].n, Len(source))
         /\ \A i \in 1..(Len(out) - 1) :
              ~Less(nodes[id].cmp, out[i + 1], out[i])

\* C6 witness: ToSlice() ran on TakeOrderedBy(From(slice), k, less) with
\* 2 <= k < len(slice) and returned k elements whose first is not among the
\* first k of the slice: the selection replaced a collected element.
TopKReplacedWitness ==
  /\ last.call = "ToSlice"
  /\ ~last.fault
  /\ nodes[last.node].op = "TakeOrderedBy"
  /\ nodes[last.node].mk = "TakeOrderedBy"
  /\ nodes[last.node].n >= 2
  /\ nodes[nodes[last.node].p].op = "From"
  /\ Len(nodes[nodes[last.node].p].data) > nodes[last.node].n
  /\ Len(last.res) = nodes[last.node].n
  /\ last.res[1] \notin
       Range1(SubSeq(nodes[nodes[last.node].p].data, 1, nodes[last.node].n))

\* C7: laziness: constructing a pipeline with any operator pulls no element
\* from its source and invokes no user callback.
ConstructorsAreLazy ==
  last.call \notin {"none", "ToSlice", "Count", "Any", "Chunk"} =>
    (last.pulls = 0 /\ last.calls = 0)

\* C8: Range(start, count) with count < 0 is an empty sequence and not a
\* fault: Size() reports the known size 0, ToSlice() returns no elements,
\* and ToSlice, Count and Chunk do not fault on it.
NegativeRangeIsEmpty ==
  \A id \in Ids :
    (nodes[id].mk = "Range" /\ nodes[id].n < 0) =>
      /\ SizeOf(nodes[id]) = [n |-> 0, known |-> TRUE]
      /\ ~ToSliceOp(id, Ctx(nodes)).fault
      /\ ToSliceOp(id, Ctx(nodes)).res = <<>>
      /\ CountOp(id, Ctx(nodes)).num = 0
      /\ \A size \in ChunkSizes : ~ChunkOp(id, size, Ctx(nodes)).fault

\* C9: Chunk(size) returns the nil sentinel exactly when size <= 0; for
\* size > 0 the result is a list, empty or not, that is not nil.
ChunkNilOnlyForBadSize ==
  (last.call = "Chunk" /\ ~last.fault) => (last.isnil <=> last.arg <= 0)

\* C10: GroupBy(source, keyFn) yields one (key, group) pair per distinct
\* key, the pairs in the order in which their keys first occur in the
\* source, each group listing its elements in source order.
GroupByFirstOccurrenceOrder ==
  [][(last'.call = "GroupBy" /\ ~last'.fault) =>
       LET source == DrainNext(last'.arg, <<>>, Ctx(nodes)).res
           made == nodes'[last'.node]
       IN made.data =
            Pairs(made.f, FirstKeys(made.f, source), source)]_vars

\* C11, as the code has it: a full traversal of a pipeline over a slice
\* terminates, having pulled no more elements than the slice holds; ToSlice
\* on Take(n) over the unbounded generator terminates after n pulls and on
\* TakeWhile(p) over it terminates at the first element failing p; ToSlice
\* on TakeOrderedBy(k), k >= 1, over the unbounded generator never
\* terminates: it is still pulling after MaxPulls elements.
TerminatesWhenBounded ==
  last.call = "ToSlice" =>
    /\ nodes[LeafOf(nodes, last.node)].op = "From" =>
         /\ ~last.cut
         /\ last.pulls <= Len(nodes[LeafOf(nodes, last.node)].data)
    /\ (nodes[last.node].op = "Take" /\ OverGenerator(last.node)) =>
         (~last.cut /\ last.pulls <= nodes[last.node].n)
    /\ (nodes[last.node].op = "TakeWhile" /\ OverGenerator(last.node)) =>
         ~last.cut
    /\ (nodes[last.node].op = "TakeOrderedBy" /\ OverGenerator(last.node)) =>
         last.cut

\* C11 witness: ToSlice on Take(2) over the generator returned two elements.
TakeOfGeneratorWitness ==
  /\ last.call = "ToSlice"
  /\ nodes[last.node].op = "Take"
  /\ OverGenerator(last.node)
  /\ nodes[last.node].n = 2
  /\ Len(last.res) = 2
  /\ ~last.cut

\* C11: termination: a full traversal terminates whenever the leaf is
\* finite, and a traversal of a bounding operator (Take(n), TakeWhile(p)
\* with some element failing p, TakeOrderedBy(k)) applied to an unbounded
\* generator leaf also terminates.
TerminatesUnderBoundingOperator ==
  last.call = "ToSlice" =>
    /\ nodes[LeafOf(nodes, last.node)].op = "From" => ~last.cut
    /\ (nodes[last.node].op \in {"Take", "TakeWhile", "TakeOrderedBy"}
        /\ OverGenerator(last.node)) => ~last.cut

\* C12: over a slice leaf and method operators only, traversals are
\* independent. In every state, whatever traversals and Next() calls came
\* before, ToSlice on any stream yields its complete sequence from the
\* first element, First yields its first element, Count (when it traverses)
\* counts all of it, and none of them changes any stream; a stream never
\* pulled through Next() yields its complete sequence to Next(); a Next()
\* call on a stream yields the head of what that stream had left and
\* leaves what every other stream has left as it was.
TraversalsIndependent ==
  \A id \in Ids :
    LET elems == Elems(nodes, id)
        slice == ToSliceOp(id, Ctx(nodes))
        first == FirstOp(id, Ctx(nodes))
        count == CountOp(id, Ctx(nodes))
        left == Remaining(nodes, id)
        next == NextOp(id, Ctx(nodes))
    IN  /\ slice.res = elems
        /\ slice.c.nodes = nodes
        /\ first.yes = (elems # <<>>)
        /\ elems # <<>> => first.num = Head(elems)
        /\ first.c.nodes = nodes
        /\ ~IsKnown(nodes[id].size) => count.num = Len(elems)
        /\ count.c.nodes = nodes
        /\ nodes[id].cur = <<>> => left = elems
        /\ next.yes = (left # <<>>)
        /\ left # <<>> =>
             /\ next.num = Head(left)
             /\ Remaining(next.c.nodes, id) = Tail(left)
        /\ \A j \in Ids \ {id} :
             Remaining(next.c.nodes, j) = Remaining(nodes, j)

\* C12 witness: Next() has been called on a stream and on its parent, both
\* are part-way through, and a ToSlice on the stream has just returned its
\* complete sequence of at least two elements.
InterleavedTraversalWitness ==
  /\ last.call = "ToSlice"
  /\ nodes[last.node].p # 0
  /\ Len(last.res) >= 2
  /\ last.res = Elems(nodes, last.node)
  /\ nodes[last.node].cur # <<>>
  /\ nodes[nodes[last.node].p].cur # <<>>
  /\ Remaining(nodes, last.node) # <<>>
  /\ Remaining(nodes, last.node) # Elems(nodes, last.node)
  /\ Remaining(nodes, nodes[last.node].p) # <<>>
  /\ Remaining(nodes, nodes[last.node].p)
       # Elems(nodes, nodes[last.node].p)

\* C13: hint propagation of the computing and preserving operators. Every
\* stream built by Select or SelectWithIndex reports its parent's hint; by
\* Take(n), n >= 0, min(parentHint, n) if the parent is known and n
\* otherwise; by Skip(n), with a negative n counted as 0,
\* max(0, parentHint - n) if the parent is known and Unknown otherwise; by
\* Concat the sum if both inputs are known and Unknown otherwise; by
\* TakeOrderedBy(k), k > 0, min(parentHint, k) if the parent is known and k
\* otherwise.
HintsPropagate ==
  /\ \A id \in Ids :
       LET nd == nodes[id]
           ph == nodes[nd.p].size
           skipped == IF ph[1] - nd.n < 0 THEN 0 ELSE ph[1] - nd.n
       IN  /\ nd.mk \in {"Select", "SelectWithIndex"} => nd.size = ph
           /\ (nd.mk \in {"Take", "TakeOrderedBy"} /\ nd.n >= 0
               /\ ~(nd.mk = "TakeOrderedBy" /\ nd.n = 0)) =>
                nd.size = IF ~IsKnown(ph) THEN Known(nd.n)
                          ELSE IF ph[1] < nd.n THEN ph ELSE Known(nd.n)
           /\ nd.mk = "Skip" =>
                nd.size = IF IsKnown(ph) THEN Known(skipped) ELSE Unknown
           /\ nd.mk = "Concat" =>
                nd.size = IF IsKnown(ph) /\ IsKnown(nodes[nd.q].size)
                          THEN Known(ph[1] + nodes[nd.q].size[1])
                          ELSE Unknown
  /\ last.call = "Skip" =>
       nodes[last.node].n = IF last.arg < 0 THEN 0 ELSE last.arg

\* C13 witness: Concat of two known one-element streams, the first a
\* Take(2) whose hint is its parent's.
HintsComputedWitness ==
  /\ last.call = "Concat"
  /\ nodes[nodes[last.node].p].mk = "Take"
  /\ nodes[nodes[last.node].p].n = 2
  /\ nodes[nodes[last.node].p].size = Known(1)
  /\ nodes[nodes[last.node].q].size = Known(1)
  /\ nodes[last.node].size = Known(2)

\* C14: for every parent hint, known or unknown, the result of Where,
\* TakeWhile, SkipWhile, Distinct, DistinctBy, Union, Intersect, Except and
\* SelectMany reports an unknown size.
FiltersLoseHint ==
  \A id \in Ids :
    nodes[id].mk \in {"Where", "TakeWhile", "SkipWhile", "Distinct",
                      "DistinctBy", "Union", "Intersect", "Except",
                      "SelectMany"} =>
      /\ ~SizeOf(nodes[id]).known
      /\ nodes[id].size = Unknown

\* C14 witness: a set operator over two known streams, and a filter over a
\* known stream, report an unknown size.
KnownParentLosesHintWitness ==
  /\ last.call \in {"Union", "Intersect", "Except"}
  /\ nodes[last.node].size = Unknown
  /\ nodes[nodes[last.node].q].mk = "Where"
  /\ IsKnown(nodes[nodes[nodes[last.node].q].p].size)
  /\ nodes[nodes[last.node].q].size = Unknown
  /\ IsKnown(nodes[nodes[last.node].p].size)

\* C15: a traversal of Take(n) yields the first min(n, |parent|) elements
\* of what its parent yields, in order; for n <= 0 it yields nothing; for
\* n < 0 the hint is Known(0); every stream built on a Take(n < 0) yields
\* nothing, through its traversal and through ToSlice.
TakeYieldsPrefix ==
  \A id \in Ids :
    LET nd == nodes[id]
        out == Traverse(id, Ctx(nodes)).res
        par == Traverse(nd.p, Ctx(nodes)).res
    IN  /\ nd.mk = "Take" =>
             /\ out = IF nd.n <= 0 THEN <<>>
                      ELSE IF nd.n < Len(par) THEN SubSeq(par, 1, nd.n)
                      ELSE par
             /\ nd.n < 0 => SizeOf(nd) = [n |-> 0, known |-> TRUE]
        /\ (\E a \in Chain(nodes, id) : nodes[a].mk = "Take" /\ nodes[a].n < 0)
             => /\ out = <<>>
                /\ ~ToSliceOp(id, Ctx(nodes)).fault
                /\ ToSliceOp(id, Ctx(nodes)).res = <<>>

\* C15 witness: ToSlice on Take(2) of a three-element slice returned its
\* first two elements, next to a Take(n < 0) of the same slice.
TakePrefixWitness ==
  /\ last.call = "ToSlice"
  /\ nodes[last.node].mk = "Take"
  /\ nodes[last.node].n = 2
  /\ nodes[last.node].p = 1
  /\ nodes[1].mk = "From"
  /\ Len(nodes[1].data) = 3
  /\ last.res = SubSeq(nodes[1].data, 1, 2)
  /\ \E id \in Ids : nodes[id].mk = "Take" /\ nodes[id].n < 0

\* C16: a traversal of Skip(n) yields what its parent yields after the
\* first n elements, in order, and nothing when n >= |parent|; for n < 0 it
\* behaves as Skip(0): it yields the parent's sequence unchanged and reports
\* the parent's known size.
SkipDropsPrefix ==
  /\ \A id \in Ids :
       LET nd == nodes[id]
           out == Traverse(id, Ctx(nodes)).res
           par == Traverse(nd.p, Ctx(nodes)).res
       IN  nd.mk = "Skip" =>
             out = IF nd.n >= Len(par) THEN <<>>
                   ELSE SubSeq(par, nd.n + 1, Len(par))
  /\ (last.call = "Skip" /\ last.arg < 0) =>
       /\ nodes[last.node].n = 0
       /\ Traverse(last.node, Ctx(nodes)).res
            = Traverse(nodes[last.node].p, Ctx(nodes)).res
       /\ SizeOf(nodes[nodes[last.node].p]).known =>
            SizeOf(nodes[last.node]) = SizeOf(nodes[nodes[last.node].p])

\* C20: a traversal of TakeWhile(p) yields what its parent yields before
\* the first element failing p and nothing after it, on later Next() calls
\* too; a traversal of SkipWhile(p) yields the first element failing p and
\* everything after it; over a parent that calls no callback, either
\* traversal calls p once for each element up to and including the first
\* failing one and for no later element; From([1..8]).SkipWhile(x < 3)
\* .TakeWhile(x < 6) gives [3, 4, 5].
WhileCutsAtFirstFailure ==
  \A id \in Ids :
    LET nd == nodes[id]
        t == Traverse(id, Ctx(nodes))
        par == Traverse(nd.p, Ctx(nodes)).res
        k == FirstFailing(nd.f, par)
        d == DrainNext(id, <<>>, Ctx(nodes))
    IN  /\ nd.mk = "TakeWhile" =>
             /\ t.res = SubSeq(par, 1, k - 1)
             /\ d.res = t.res
             /\ ~NodeNext(id, d.c).ok
        /\ nd.mk = "SkipWhile" => t.res = SubSeq(par, k, Len(par))
        /\ (nd.mk \in {"TakeWhile", "SkipWhile"}
            /\ \A a \in Chain(nodes, nd.p) : nodes[a].f = "") =>
             t.c.calls = IF k > Len(par) THEN Len(par) ELSE k
        /\ (nd.mk = "TakeWhile" /\ nd.f = "lt6"
            /\ nodes[nd.p].mk = "SkipWhile" /\ nodes[nd.p].f = "lt3"
            /\ nodes[nodes[nd.p].p].mk = "From"
            /\ nodes[nodes[nd.p].p].data = RunSlice) =>
             /\ ToSliceOp(id, Ctx(nodes)).res = <<3, 4, 5>>
             /\ ~ToSliceOp(id, Ctx(nodes)).fault

\* C20 witness: ToSlice on TakeWhile(p) over a slice that holds an element
\* satisfying p after the first failing one returned the non-empty prefix,
\* having called p once more than it yielded elements.
TakeWhileStopsWitness ==
  /\ last.call = "ToSlice"
  /\ nodes[last.node].mk = "TakeWhile"
  /\ nodes[nodes[last.node].p].mk = "From"
  /\ \E i, j \in 1..Len(nodes[nodes[last.node].p].data) :
       /\ i < j
       /\ ~Pred(nodes[last.node].f, nodes[nodes[last.node].p].data[i])
       /\ Pred(nodes[last.node].f, nodes[nodes[last.node].p].data[j])
  /\ last.res # <<>>
  /\ last.calls = Len(last.res) + 1

\* C17: A.Concat(B) yields all elements of A in order followed by all
\* elements of B in order, duplicates preserved; with both hints known its
\* count is count(A) + count(B) and its hint is that sum; Concat of
\* [1, 2, 3] and [4, 5, 6] is [1, 2, 3, 4, 5, 6] with hint Known(6).
ConcatYieldsBoth ==
  \A id \in Ids :
    (nodes[id].mk = "Concat" /\ OverSlices(id)) =>
      LET A == nodes[nodes[id].p].data
          B == nodes[nodes[id].q].data
      IN  /\ ToSliceOp(id, Ctx(nodes)).res = A \o B
          /\ SizeOf(nodes[id]) = [n |-> Len(A) + Len(B), known |-> TRUE]
          /\ CountOp(id, Ctx(nodes)).num = Len(A) + Len(B)
          /\ (A = <<1, 2, 3>> /\ B = <<4, 5, 6>>) =>
               /\ ToSliceOp(id, Ctx(nodes)).res = <<1, 2, 3, 4, 5, 6>>
               /\ nodes[id].size = Known(6)

\* C18: Union(A, B) yields each distinct value of A or B exactly once, in
\* first-seen order across A followed by B; Union of [1, 2, 3] and
\* [3, 4, 5] is [1, 2, 3, 4, 5]; while A has an element to give, a pull
\* takes nothing from B.
UnionYieldsFirstSeen ==
  \A id \in Ids :
    (nodes[id].mk = "Union" /\ OverSlices(id)) =>
      LET A == nodes[nodes[id].p].data
          B == nodes[nodes[id].q].data
          first == FirstOp(id, Ctx(nodes))
      IN  /\ ToSliceOp(id, Ctx(nodes)).res = FirstSeen(A \o B)
          /\ (A = <<1, 2, 3>> /\ B = <<3, 4, 5>>) =>
               ToSliceOp(id, Ctx(nodes)).res = <<1, 2, 3, 4, 5>>
          /\ (nodes[id].p # nodes[id].q
              /\ Remaining(nodes, nodes[id].p) # <<>>) =>
               first.c.nodes[nodes[id].q] = nodes[nodes[id].q]

\* C19: on a traversal of Intersect(A, B) / Except(A, B), B is wholly
\* consumed into the membership set before the first element of A is
\* pulled; the traversal yields the elements of A that are (Intersect) /
\* are not (Except) members of B, each once, in A's order.
MembershipFiltersFirst ==
  \A id \in Ids :
    (nodes[id].mk \in {"Intersect", "Except"} /\ OverSlices(id)) =>
      LET A == nodes[nodes[id].p].data
          B == nodes[nodes[id].q].data
          InB(x) == \E i \in 1..Len(B) : B[i] = x
          NotInB(x) == ~InB(x)
          f == Factory(id, Ctx(nodes))
      IN  /\ ToSliceOp(id, Ctx(nodes)).res =
               IF nodes[id].mk = "Intersect"
               THEN FirstSeen(SelectSeq(A, InB))
               ELSE FirstSeen(SelectSeq(A, NotInB))
          /\ Remaining(f.c.nodes, nodes[id].q) = <<>>
          /\ nodes[id].p # nodes[id].q =>
               f.c.nodes[nodes[id].p] = nodes[nodes[id].p]

\* C21: slice leaves under external mutation. A FromSafe stream yields, at
\* construction and after every later step, the slice it was constructed
\* from; a From stream yields the caller's live slice: after the caller
\* overwrites element i with v, its traversal has v at i and is otherwise
\* as before; both always yield as many elements as the slice held at
\* construction, which is their size.
SliceLeafNow ==
  /\ \A id \in Ids :
       nodes[id].mk \in {"From", "FromSafe"} =>
         /\ SizeOf(nodes[id]).known
         /\ Len(Traverse(id, Ctx(nodes)).res) = SizeOf(nodes[id]).n
  /\ last.call = "FromSafe" =>
       Traverse(last.node, Ctx(nodes)).res = nodes[last.node].coll
  /\ (last.call = "SetElement" /\ nodes[last.node].mk = "From") =>
       Traverse(last.node, Ctx(nodes)).res[last.arg] = last.num

SliceLeafStep ==
  \A id \in Ids :
    LET old == Traverse(id, Ctx(nodes)).res
        new == Traverse(id, Ctx(nodes')).res
    IN  /\ nodes[id].mk \in {"From", "FromSafe"} =>
             nodes'[id].size = nodes[id].size
        /\ nodes[id].mk = "FromSafe" => new = old
        /\ nodes[id].mk = "From" =>
             new = IF last'.call = "SetElement" /\ last'.node = id
                   THEN [old EXCEPT ![last'.arg] = last'.num]
                   ELSE old

SliceLeavesUnderMutation == []SliceLeafNow /\ [][SliceLeafStep]_vars

\* C21 witness: the caller has changed the slice it gave to FromSafe, and
\* ToSlice returned the elements the slice held at construction.
FromSafeKeepsCopyWitness ==
  /\ last.call = "ToSlice"
  /\ nodes[last.node].mk = "FromSafe"
  /\ Len(last.res) >= 2
  /\ last.res = nodes[last.node].data
  /\ nodes[last.node].coll # last.res

\* C22: map leaves under external mutation. FromMap copies the keys of the
\* map at construction and never changes them; each pair it yields carries
\* the value the live map holds for its key at that moment, so after the
\* caller stores v under a copied key the pair of that key carries v and
\* the other pairs are as before. FromMapSafe yields, at construction and
\* after every later step, the keys and values the map held at
\* construction.
MapLeafNow ==
  /\ last.call \in {"FromMap", "FromMapSafe"} =>
       LET res == Traverse(last.node, Ctx(nodes)).res
           m == nodes[last.node].coll
       IN  /\ Len(res) = Cardinality(DOMAIN m)
           /\ {res[i] : i \in 1..Len(res)} =
                {[Key |-> k, Value |-> m[k]] : k \in DOMAIN m}
  /\ (last.call = "SetValue" /\ nodes[last.node].mk = "FromMap") =>
       \A i \in 1..Len(nodes[last.node].data) :
         nodes[last.node].data[i] = last.res[1] =>
           Traverse(last.node, Ctx(nodes)).res[i] =
             [Key |-> last.res[1], Value |-> last.num]

MapLeafStep ==
  \A id \in Ids :
    LET old == Traverse(id, Ctx(nodes)).res
        new == Traverse(id, Ctx(nodes')).res
    IN  /\ nodes[id].mk = "FromMapSafe" => new = old
        /\ nodes[id].mk = "FromMap" =>
             /\ Len(new) = Len(old)
             /\ \A i \in 1..Len(old) :
                  /\ new[i].Key = old[i].Key
                  /\ (last'.call \in {"SetValue", "DeleteKey"}
                      /\ last'.node = id /\ last'.res = <<old[i].Key>>)
                     \/ new[i] = old[i]

MapLeavesUnderMutation == []MapLeafNow /\ [][MapLeafStep]_vars

\* C22 witness: the caller has changed a value of the map it gave to
\* FromMapSafe, and ToSlice returned the pairs the map held at construction.
FromMapSafeKeepsSnapshotWitness ==
  /\ last.call = "ToSlice"
  /\ nodes[last.node].mk = "FromMapSafe"
  /\ Len(last.res) >= 2
  /\ last.res = nodes[last.node].data
  /\ \E i \in 1..Len(last.res) :
       /\ last.res[i].Key \in DOMAIN nodes[last.node].coll
       /\ nodes[last.node].coll[last.res[i].Key] # last.res[i].Value

\* C23: for size > 0, Chunk(size) partitions the traversal: it returns
\* without a fault, its chunks concatenated in order equal ToSlice(), every
\* chunk but the last has exactly size elements, the last has between 1 and
\* size, and there are ceil(count / size) chunks.
ChunkPartitions ==
  \A id \in Ids : \A size \in ChunkSizes :
    size > 0 =>
      LET r == ChunkOp(id, size, Ctx(nodes))
          all == ToSliceOp(id, Ctx(nodes))
      IN  /\ ~r.fault
          /\ ~all.fault
          /\ Flattened(r.res) = all.res
          /\ \A i \in 1..Len(r.res) :
               /\ Len(r.res[i]) >= 1
               /\ Len(r.res[i]) <= size
               /\ i < Len(r.res) => Len(r.res[i]) = size
          /\ Len(r.res) = GoDiv(Len(all.res) + size - 1, size)

\* C24: TakeOrderedBy(source, k, less) with k <= 0 pulls nothing from the
\* source and calls no callback at construction; every traversal of its
\* result, by ToSlice or by Next(), yields nothing without a fault, pulls
\* no element and leaves every other stream as it was.
TopKOfNothingTouchesNothing ==
  /\ (last.call = "TakeOrderedBy" /\ last.arg <= 0) =>
       (last.pulls = 0 /\ last.calls = 0)
  /\ \A id \in Ids :
       (nodes[id].mk = "TakeOrderedBy" /\ nodes[id].n <= 0) =>
         LET slice == ToSliceOp(id, Ctx(nodes))
             next == NextOp(id, Ctx(nodes))
         IN  /\ ~slice.fault
             /\ slice.res = <<>>
             /\ slice.c.pulls = 0
             /\ slice.c.calls = 0
             /\ slice.c.nodes = nodes
             /\ ~next.yes
             /\ next.c.pulls = 0
             /\ \A j \in Ids \ {id} : next.c.nodes[j] = nodes[j]

\* C24 witness: ToSlice on TakeOrderedBy(s, k, less), k <= 0, over a slice
\* that holds elements returned nothing and pulled nothing.
TopKOfNothingWitness ==
  /\ last.call = "ToSlice"
  /\ nodes[last.node].mk = "TakeOrderedBy"
  /\ nodes[last.node].n <= 0
  /\ nodes[nodes[last.node].p].mk = "From"
  /\ Len(nodes[nodes[last.node].p].data) >= 2
  /\ last.res = <<>>
  /\ last.pulls = 0

\* C25: building DistinctBy raises no fault, pulls nothing and calls
\* nothing, whatever its key selector returns. A traversal faults when the
\* parent yields an element whose key is not comparable (the slice that
\* "boxed" returns for an even element): it faults at the first such
\* element, after the key selector has been called once for each element
\* up to it, and the distinct elements before it have been yielded by
\* then. Without such an element it faults only if its parent does.
DistinctByFaultsOnlyWhenPulled ==
  /\ last.call = "DistinctBy" =>
       (~last.fault /\ last.pulls = 0 /\ last.calls = 0)
  /\ \A id \in Ids :
       nodes[id].mk = "DistinctBy" =>
         LET nd == nodes[id]
             t == ToSliceOp(id, Ctx(nodes))
             par == Traverse(nd.p, Ctx(nodes))
             Bad(i) == nd.f = "boxed" /\ par.res[i] % 2 = 0
             bad == CHOOSE i \in 1..Len(par.res) :
                      Bad(i) /\ \A j \in 1..(i - 1) : ~Bad(j)
         IN  IF \E i \in 1..Len(par.res) : Bad(i)
             THEN /\ t.fault
                  /\ t.res = FirstByKey(nd.f, SubSeq(par.res, 1, bad - 1))
                  /\ (\A a \in Chain(nodes, nd.p) : nodes[a].f = "") =>
                       t.c.calls = bad
             ELSE /\ t.fault = par.c.fault
                  /\ t.res = FirstByKey(nd.f, par.res)

\* C25 witness: ToSlice on DistinctBy over a slice whose second element has
\* a key that is not comparable faulted after the first element was yielded.
DistinctByFaultWitness ==
  /\ last.call = "ToSlice"
  /\ nodes[last.node].mk = "DistinctBy"
  /\ nodes[nodes[last.node].p].mk = "From"
  /\ Len(nodes[nodes[last.node].p].data) >= 2
  /\ nodes[last.node].f = "boxed"
  /\ nodes[nodes[last.node].p].data[2] % 2 = 0
  /\ last.fault
  /\ last.res = <<nodes[nodes[last.node].p].data[1]>>
  /\ last.calls = 2

\* Whether the next k calls of Next() on stream id, from context c, all
\* return false.
RECURSIVE StaysExhausted(_, _, _)
StaysExhaustedStep(id, k, e) ==
  /\ ~e.ok
  /\ StaysExhausted(id, k - 1, e.c)

StaysExhausted(id, k, c) ==
  k = 0 \/ StaysExhaustedStep(id, k, NodeNext(id, c))

\* C26: exhaustion is permanent. Whatever position the pull function of a
\* stream is in (fresh, or advanced by earlier calls of Next() on it or on
\* the streams it reads), once it is called until it returns false, each
\* of the following calls on the same pull function returns false too.
\* The streams are slices under Take, Skip, TakeWhile, SkipWhile, Concat,
\* Union, Zip and SelectMany.
ExhaustionPermanent ==
  \A id \in Ids :
    StaysExhausted(id, 3, DrainNext(id, <<>>, Ctx(nodes)).c)

\* C26 witness: Next() on a Zip has returned false because its second
\* stream ran out while its first stream has an element left, so a later
\* call on the Zip does pull the first stream again.
ZipExhaustedBySecondWitness ==
  /\ last.call = "Next"
  /\ ~last.yes
  /\ nodes[last.node].op = "Zip"
  /\ nodes[last.node].p # nodes[last.node].q
  /\ NodeNext(nodes[last.node].p, Ctx(nodes)).ok

\* The elements of a slice or Range leaf.
LeafElems(nd) ==
  IF nd.op = "Range" THEN [i \in 1..nd.n |-> nd.a + i - 1] ELSE nd.data

\* How many elements of s are examined until n of them have passed f:
\* the position of the n-th passing element, or all of s when fewer pass.
Examined(f, s, n) ==
  IF n = 0 THEN 0
  ELSE IF Cardinality({j \in 1..Len(s) : Pred(f, s[j])}) < n THEN Len(s)
  ELSE CHOOSE i \in 1..Len(s) :
         /\ Pred(f, s[i])
         /\ Cardinality({j \in 1..i : Pred(f, s[j])}) = n

\* C27 for one Take(n), n >= 0, with parent par: a traversal of a Take over
\* a leaf pulls min(n, length) elements, so at most n; a traversal of a
\* Take over a Where over a leaf pulls the leaf, and calls the predicate,
\* exactly up to the n-th passing element; and the call of Next() after
\* the one that returned false returns false and pulls and calls nothing.
TakeStopsAt(id, nd, par, t, d, e) ==
  /\ Len(t.res) <= nd.n
  /\ par.op \in {"From", "Range"} =>
       /\ t.c.pulls = Min2(nd.n, Len(LeafElems(par)))
       /\ t.c.pulls <= nd.n
       /\ t.c.calls = 0
  /\ (par.op = "Where" /\ nodes[par.p].op \in {"From", "Range"}) =>
       /\ t.c.pulls = Examined(par.f, LeafElems(nodes[par.p]), nd.n)
       /\ t.c.calls = t.c.pulls
  /\ ~e.ok
  /\ e.c.pulls = d.c.pulls
  /\ e.c.calls = d.c.calls

\* C27: Take terminates early. In one traversal Take(n) pulls at most n
\* elements from its parent and, once exhausted, pulls nothing more; and
\* Range(1, LongCount).Where(even).Take(3).ToSlice() returns <<2, 4, 6>>
\* after exactly 6 evaluations of the predicate, on the elements 1..6.
TakeTerminatesEarly ==
  /\ \A id \in Ids :
       (nodes[id].mk = "Take" /\ nodes[id].op = "Take") =>
         TakeStopsAt(id, nodes[id], nodes[nodes[id].p],
                     Traverse(id, Ctx(nodes)),
                     DrainNext(id, <<>>, Ctx(nodes)),
                     NodeNext(id, DrainNext(id, <<>>, Ctx(nodes)).c))
  /\ (/\ last.call = "ToSlice"
      /\ Len(nodes) = 3
      /\ last.node = 3
      /\ nodes[1].op = "Range"
      /\ nodes[2].op = "Where" /\ nodes[2].p = 1 /\ nodes[2].f = "even"
      /\ nodes[3].op = "Take" /\ nodes[3].p = 2 /\ nodes[3].n = 3)
     => /\ last.res = <<2, 4, 6>>
        /\ last.calls = 6
        /\ last.pulls = 6
        /\ ~last.fault

\* C27 witness: ToSlice has run on Range(1, LongCount).Where(even).Take(3),
\* whose Range has elements left after the sixth.
LazyExampleWitness ==
  /\ last.call = "ToSlice"
  /\ Len(nodes) = 3
  /\ last.node = 3
  /\ nodes[1].op = "Range" /\ nodes[1].n > 6
  /\ nodes[2].op = "Where" /\ nodes[2].p = 1 /\ nodes[2].f = "even"
  /\ nodes[3].op = "Take" /\ nodes[3].p = 2 /\ nodes[3].n = 3
  /\ last.res = <<2, 4, 6>>

\* The streams as they are when freshly constructed: no Next() has been
\* called on any of them.
Fresh(ns) == [i \in DOMAIN ns |-> [ns[i] EXCEPT !.cur = <<>>]]

\* C28: a node holds no iteration position that evaluation can change.
\* After whatever evaluators have run (ToSlice, Count, Sum) on a node or on
\* pipelines derived from it, Next(), ToSlice, Count and Sum on the node
\* return what they return on the same pipeline freshly constructed.
NodeHoldsNoPosition ==
  \A id \in Ids :
    /\ NextOp(id, Ctx(nodes)).yes = NextOp(id, Ctx(Fresh(nodes))).yes
    /\ NextOp(id, Ctx(nodes)).num = NextOp(id, Ctx(Fresh(nodes))).num
    /\ ToSliceOp(id, Ctx(nodes)).res = ToSliceOp(id, Ctx(Fresh(nodes))).res
    /\ CountOp(id, Ctx(nodes)).num = CountOp(id, Ctx(Fresh(nodes))).num
    /\ nodes[id].ty = "int" =>
         SumOp(id, Ctx(nodes)).num = SumOp(id, Ctx(Fresh(nodes))).num

\* No retained element is worse than the root under less.
RootIsWorst(cmp, heap) ==
  \A i \in 1..Len(heap) : ~Less(cmp, heap[1], heap[i])

\* The heap of one TakeOrderedBy node after "Build max-heap" and after
\* "Process remaining elements", on the elements first that the first
\* loop collected from source.
HeapAfterPass(nd, source, first) ==
  first.heap # <<>> =>
    LET built == buildHeap(first.heap, Negate(nd.cmp)).items
        rest == ProcessRest(nd.p, built, nd.cmp, first.c).heap
    IN /\ RootIsWorst(nd.cmp, built)
       /\ RootIsWorst(nd.cmp, rest)
       /\ SortSlice(rest, nd.cmp).items
            = SubSeq(SortSlice(source, nd.cmp).items, 1,
                     Min2(nd.n, Len(source)))

\* C29: heap invariant of the top-K pass. After the heap is built from the
\* first k elements, and after the remaining candidates are processed, no
\* retained element x satisfies less(root, x), and the buffer holds the
\* min(k, i) smallest of the i source elements.  Stated for a strict less
\* (TakeOrderedBy itself, not the negated less of TakeOrderedDescendingBy).
HeapRootIsWorst ==
  \A id \in Ids :
    (nodes[id].op = "TakeOrderedBy" /\ ~nodes[id].cmp.neg) =>
      HeapAfterPass(nodes[id],
                    DrainNext(nodes[id].p, <<>>, Ctx(nodes)).res,
                    CollectFirst(nodes[id].p, nodes[id].n, <<>>, Ctx(nodes)))

\* C30: the size hint is an upper bound. In every pipeline over From,
\* FromSafe, Empty, FromMap, FromMapSafe and Range with count >= 0, a
\* stream whose Size() is known yields at most that many elements in a
\* full traversal; ToSlice does not fault and returns at most that many;
\* and when Skip(n) returned Empty, a traversal of its parent yields at
\* most n elements, so nothing is dropped that would have been yielded.
SizeHintIsUpperBound ==
  (\A i \in Ids : nodes[i].op = "Range" => nodes[i].n >= 0) =>
    /\ \A id \in Ids :
         IsKnown(nodes[id].size) =>
           Len(Traverse(id, Ctx(nodes)).res) <= nodes[id].size[1]
    /\ (last.call = "ToSlice" /\ IsKnown(nodes[last.node].size)) =>
         /\ ~last.fault
         /\ Len(last.res) <= nodes[last.node].size[1]
    /\ \A id \in Ids :
         (nodes[id].mk = "Skip" /\ nodes[id].op = "Empty") =>
           Len(Traverse(nodes[id].p, Ctx(nodes)).res) <= nodes[id].n

\* C30 witness: ToSlice has filled the whole capacity of a Concat of two
\* streams of known size, and a Skip has returned Empty.
HintReachedWitness ==
  /\ last.call = "ToSlice"
  /\ nodes[last.node].mk = "Concat"
  /\ IsKnown(nodes[last.node].size)
  /\ nodes[nodes[last.node].q].size # Known(0)
  /\ Len(last.res) = nodes[last.node].size[1]
  /\ \E id \in Ids : nodes[id].mk = "Skip" /\ nodes[id].op = "Empty"

=============================================================================
